---- MODULE Spec2Model ----
(***************************************************************************)
(* Secure Task Manager: the Express API (auth routes, JWT access guard,    *)
(* Zod validation, user-scoped task routes over PostgreSQL) as a state     *)
(* machine.  A task route runs its synchronous part (guard, parameter and   *)
(* body validation), which reads no shared state but the clock, and then   *)
(* one SQL statement, which the database runs atomically, and answers from *)
(* the statement's result: each request to a task route is one action.     *)
(***************************************************************************)
EXTENDS Integers, Sequences, FiniteSets, TLC

VARIABLES
    users,       \* table users: id -> row
    tasks,       \* table tasks: id -> row
    nextTaskId,  \* the tasks_id sequence
    clock,       \* wall clock, in milliseconds (Date.now())
    localStorage, \* the client's stored token (stm_token), NoJwt when none
    last,        \* the request completed last, with its response
    client,      \* the browser: location, the tasks page's state, calls in flight
    creator,     \* history: task id -> the user id in the token that created it
    issued,      \* history: the tokens logins have issued, each with its time
    registering  \* registrations between their uniqueness check and their INSERT

vars ==
    <<users, tasks, nextTaskId, clock, localStorage, last, creator, issued, registering,
      client>>

(***************************************************************************)
(* Bounds of the model.                                                    *)
(***************************************************************************)
MaxTasks == 2       \* rows ever inserted into tasks
MaxHours == 3       \* how long the clock runs, in halves of a token's life
MaxUsers == 4       \* rows of users and registrations in flight
MaxInFlight == 2    \* registrations between their check and their INSERT

(***************************************************************************)
(* JavaScript values of a JSON body.  A string is a sequence of            *)
(* characters; an absent key reads as undefined.                           *)
(***************************************************************************)
Undef == [t |-> "undefined", s |-> <<>>, b |-> FALSE, n |-> 0]
Null == [t |-> "null", s |-> <<>>, b |-> FALSE, n |-> 0]
Num(n) == [t |-> "number", s |-> <<>>, b |-> FALSE, n |-> n]
Str(s) == [t |-> "string", s |-> s, b |-> FALSE, n |-> 0]
Bool(b) == [t |-> "boolean", s |-> <<>>, b |-> b, n |-> 0]

IsSpace(c) == c = " "

\* String.prototype.trim
RECURSIVE TrimStart(_)
TrimStart(s) ==
    IF s = <<>> THEN <<>>
    ELSE IF IsSpace(Head(s)) THEN TrimStart(Tail(s)) ELSE s

RECURSIVE TrimEnd(_)
TrimEnd(s) ==
    IF s = <<>> THEN <<>>
    ELSE IF IsSpace(s[Len(s)]) THEN TrimEnd(SubSeq(s, 1, Len(s) - 1)) ELSE s

Trim(s) == TrimEnd(TrimStart(s))

(***************************************************************************)
(* Identity tokens.  sig says how the token was signed: "good" with the    *)
(* server's secret, "bad" with another key, "malformed" is a string that   *)
(* is no JWT at all.  exp is in seconds.                                   *)
(***************************************************************************)
MsPerSecond == 1000
ExpiresIn == 7200

NoJwt == [userId |-> 0, exp |-> 0, sig |-> "malformed"]

\* jwt.sign({ userId }, secret, { expiresIn: "2h" }): iat is the clock's second
JwtSign(userId, now) ==
    [userId |-> userId, exp |-> (now \div MsPerSecond) + ExpiresIn, sig |-> "good"]

\* jwt.verify with ignoreExpiration
JwtVerify_IgnoreExpiration(token, now) ==
    IF token.sig # "good" THEN [ok |-> FALSE, userId |-> 0]
    ELSE [ok |-> TRUE, userId |-> token.userId]

\* jwt.verify(token, secret): the payload, or a throw
JwtVerify(token, now) ==
    IF token.sig # "good" THEN [ok |-> FALSE, userId |-> 0]
    ELSE IF (now \div MsPerSecond) >= token.exp THEN [ok |-> FALSE, userId |-> 0]
    ELSE [ok |-> TRUE, userId |-> token.userId]

(***************************************************************************)
(* The Authorization header: undefined, or a string given here by its      *)
(* parts between single spaces.  A part is a word, or a JWT.               *)
(***************************************************************************)
Word(w) == [s |-> w, tok |-> NoJwt]
Jwt(tok) == [s |-> "jwt", tok |-> tok]
NoHeader == [defined |-> FALSE, parts |-> <<>>]
Header(parts) == [defined |-> TRUE, parts |-> parts]
Bearer(tok) == Header(<<Word("Bearer"), Jwt(tok)>>)

\* !authHeader: undefined, or the empty string
Falsy(header) ==
    \/ ~header.defined
    \/ header.parts = <<Word("")>>

NoUser == 0

authMiddleware_AcceptsExpired(header, now) ==
    IF Falsy(header)
    THEN [next |-> FALSE, status |-> 401, error |-> "Missing Authorization header.",
          userId |-> NoUser]
    ELSE IF Len(header.parts) # 2 \/ header.parts[1] # Word("Bearer")
    THEN [next |-> FALSE, status |-> 401,
          error |-> "Authorization header must be in 'Bearer <token>' format.",
          userId |-> NoUser]
    ELSE IF header.parts[2].tok.sig = "good"
    THEN [next |-> TRUE, status |-> 0, error |-> "", userId |-> header.parts[2].tok.userId]
    ELSE [next |-> FALSE, status |-> 401, error |-> "Invalid or expired token.",
          userId |-> NoUser]

\* a guard with sessions: only the token of the current session is accepted
authMiddleware_CurrentSession(header, now) ==
    IF Falsy(header)
    THEN [next |-> FALSE, status |-> 401, error |-> "Missing Authorization header.",
          userId |-> NoUser]
    ELSE IF Len(header.parts) # 2 \/ header.parts[1] # Word("Bearer")
    THEN [next |-> FALSE, status |-> 401,
          error |-> "Authorization header must be in 'Bearer <token>' format.",
          userId |-> NoUser]
    ELSE LET payload == JwtVerify(header.parts[2].tok, now)
         IN  IF payload.ok /\ header.parts[2].tok = localStorage
             THEN [next |-> TRUE, status |-> 0, error |-> "", userId |-> payload.userId]
             ELSE [next |-> FALSE, status |-> 401, error |-> "Invalid or expired token.",
                   userId |-> NoUser]

\* authMiddleware(req, res, next): a 401 response, or req.user set and next()
authMiddleware(header, now) ==
    IF Falsy(header)
    THEN [next |-> FALSE, status |-> 401, error |-> "Missing Authorization header.",
          userId |-> NoUser]
    ELSE IF Len(header.parts) # 2 \/ header.parts[1] # Word("Bearer")
    THEN [next |-> FALSE, status |-> 401,
          error |-> "Authorization header must be in 'Bearer <token>' format.",
          userId |-> NoUser]
    ELSE LET payload == JwtVerify(header.parts[2].tok, now)
         IN  IF payload.ok
             THEN [next |-> TRUE, status |-> 0, error |-> "", userId |-> payload.userId]
             ELSE [next |-> FALSE, status |-> 401, error |-> "Invalid or expired token.",
                   userId |-> NoUser]

(***************************************************************************)
(* Zod (v3) schemas of schemas/taskSchemas.js.  A body is a JSON object,   *)
(* given by the value under each key the model uses; user_id stands for a  *)
(* key that is in no schema.                                               *)
(***************************************************************************)
Body(title, description, completed, user_id) ==
    [title |-> title, description |-> description, completed |-> completed,
     user_id |-> user_id]

\* the keys a body has
BodyKeys(body) == {k \in DOMAIN body : body[k].t # "undefined"}

\* a ZodIssue: keys holds the unrecognized keys of an unrecognized_keys issue
Issue(path, message) == [path |-> path, message |-> message, keys |-> {}]

Valid(value) == [status |-> "valid", issues |-> <<>>, value |-> value]

\* Zod's default invalid_type message
ExpectedString(v) ==
    CASE v.t = "undefined" -> "Required"
      [] v.t = "null" -> "Expected string, received null"
      [] v.t = "number" -> "Expected string, received number"
      [] v.t = "boolean" -> "Expected string, received boolean"
      [] OTHER -> ""

\* z.string(...) without .trim()
ZodString_NoTrim(v, key, optional, min, requiredMsg, typeMsg, minMsg) ==
    IF v.t = "undefined"
    THEN IF optional
         THEN Valid(Undef)
         ELSE [status |-> "aborted", issues |-> <<Issue(<<key>>, requiredMsg)>>,
               value |-> Undef]
    ELSE IF v.t # "string"
    THEN [status |-> "aborted", issues |-> <<Issue(<<key>>, typeMsg)>>, value |-> Undef]
    ELSE IF Len(v.s) < min
    THEN [status |-> "dirty", issues |-> <<Issue(<<key>>, minMsg)>>, value |-> v]
    ELSE Valid(v)

\* z.string(...).trim()[.min(1, minMsg)][.optional()] on the value under key
ZodString(v, key, optional, min, requiredMsg, typeMsg, minMsg) ==
    IF v.t = "undefined"
    THEN IF optional
         THEN Valid(Undef)
         ELSE [status |-> "aborted", issues |-> <<Issue(<<key>>, requiredMsg)>>,
               value |-> Undef]
    ELSE IF v.t # "string"
    THEN [status |-> "aborted", issues |-> <<Issue(<<key>>, typeMsg)>>, value |-> Undef]
    ELSE LET trimmed == Trim(v.s)
         IN  IF Len(trimmed) < min
             THEN [status |-> "dirty", issues |-> <<Issue(<<key>>, minMsg)>>,
                   value |-> Str(trimmed)]
             ELSE Valid(Str(trimmed))

\* z.boolean({ invalid_type_error }).optional()
ZodBoolean(v, key, typeMsg) ==
    IF v.t = "undefined" THEN Valid(Undef)
    ELSE IF v.t # "boolean"
    THEN [status |-> "aborted", issues |-> <<Issue(<<key>>, typeMsg)>>, value |-> Undef]
    ELSE Valid(v)

\* ParseStatus.mergeObjectSync: aborted wins over dirty over valid
MergeStatus(statuses) ==
    IF "aborted" \in statuses THEN "aborted"
    ELSE IF "dirty" \in statuses THEN "dirty"
    ELSE "valid"

RECURSIVE FieldIssues(_, _)
FieldIssues(shape, fields) ==
    IF shape = <<>> THEN <<>>
    ELSE fields[Head(shape)].issues \o FieldIssues(Tail(shape), fields)

\* z.object(shape).strict() on body: the shape's keys are parsed in order, then
\* the keys outside the shape make one unrecognized_keys issue on the object
\* itself (empty path); the data holds the shape's keys only
\* z.object(...) without .strict(): unknown keys are stripped
ZodStrictObject_Strip(shape, fields, body) ==
    LET shapeKeys == {shape[i] : i \in 1..Len(shape)}
    IN  [status |-> MergeStatus({fields[k].status : k \in shapeKeys}),
         issues |-> FieldIssues(shape, fields),
         data |-> [k \in shapeKeys |-> fields[k].value]]

\* z.object(shape).strict(): the fields in shape order, then one issue for the
\* unrecognized keys, with an empty path (its message lists the keys; they are
\* kept in keys)
ZodStrictObject(shape, fields, body) ==
    LET shapeKeys == {shape[i] : i \in 1..Len(shape)}
        extraKeys == BodyKeys(body) \ shapeKeys
        strict == IF extraKeys # {}
                  THEN [status |-> "dirty",
                        issues |-> <<[path |-> <<>>,
                                      message |-> "Unrecognized key(s) in object",
                                      keys |-> extraKeys]>>]
                  ELSE [status |-> "valid", issues |-> <<>>]
    IN  [status |-> MergeStatus({fields[k].status : k \in shapeKeys} \cup {strict.status}),
         issues |-> FieldIssues(shape, fields) \o strict.issues,
         data |-> [k \in shapeKeys |-> fields[k].value]]

\* Object.keys(data)
ObjectKeys(data) == {k \in DOMAIN data : data[k].t # "undefined"}

\* safeParse: success only without issues
SafeParse(parsed) ==
    [success |-> parsed.status = "valid", data |-> parsed.data, issues |-> parsed.issues]

createTaskSchema(body) ==
    SafeParse(ZodStrictObject(
        <<"title", "description">>,
        [title |-> ZodString(body.title, "title", FALSE, 1, "Title is required.",
                             ExpectedString(body.title), "Title cannot be empty."),
         description |-> ZodString(body.description, "description", TRUE, 0, "",
                                   ExpectedString(body.description), "")],
        body))

\* the schema without its .refine
Refine_Skipped(parsed) == parsed

\* .refine((data) => Object.keys(data).length > 0, { path: ["_form"] }): ZodEffects
\* runs the refinement unless the object's parse aborted
Refine(parsed) ==
    IF parsed.status = "aborted" THEN parsed
    ELSE IF Cardinality(ObjectKeys(parsed.data)) > 0 THEN parsed
    ELSE [parsed EXCEPT
            !.status = "dirty",
            !.issues = @ \o <<Issue(<<"_form">>,
                                "At least one field is required to update a task.")>>]

\* the schema with description: z.string().trim().optional(), as the create
\* schema has it
updateTaskSchema_EmptyDescription(body) ==
    SafeParse(Refine(ZodStrictObject(
        <<"title", "description", "completed">>,
        [title |-> ZodString(body.title, "title", TRUE, 1, "",
                             "Title must be a string.", "Title cannot be empty."),
         description |-> ZodString(body.description, "description", TRUE, 0, "",
                                   "Description must be a string.", ""),
         completed |-> ZodBoolean(body.completed, "completed",
                                  "Completed must be true or false.")],
        body)))

updateTaskSchema(body) ==
    SafeParse(Refine(ZodStrictObject(
        <<"title", "description", "completed">>,
        [title |-> ZodString(body.title, "title", TRUE, 1, "",
                             "Title must be a string.", "Title cannot be empty."),
         description |-> ZodString(body.description, "description", TRUE, 1, "",
                                   "Description must be a string.",
                                   "Description cannot be empty"),
         completed |-> ZodBoolean(body.completed, "completed",
                                  "Completed must be true or false.")],
        body)))

\* formatZodError(zodError): issue.path.join("."), or "unknown" for an empty path
\* (every path of these flat schemas has at most one element)
formatZodError(issues) ==
    [i \in 1..Len(issues) |->
        [field |-> IF Len(issues[i].path) > 0 THEN issues[i].path[1] ELSE "unknown",
         message |-> issues[i].message]]

(***************************************************************************)
(* The :id route parameter.  A raw parameter is a decimal integer literal  *)
(* (lit "dec", its value n), or one of the literals "1.5", "abc", "1e22".  *)
(* A JavaScript number is given by its kind and, for an integer that the   *)
(* model can count to, its value; "huge" is an integer beyond the range of *)
(* every PostgreSQL integer type (1e22).                                   *)
(***************************************************************************)
Dec(n) == [lit |-> "dec", n |-> n]
Lit(l) == [lit |-> l, n |-> 0]
NoParam == Lit("")

\* Number(rawValue)
JsNumber(raw) ==
    CASE raw.lit = "dec" -> [kind |-> "int", val |-> raw.n]
      [] raw.lit = "1.5" -> [kind |-> "fraction", val |-> 1]
      [] raw.lit = "1e22" -> [kind |-> "huge", val |-> 1]
      [] OTHER -> [kind |-> "NaN", val |-> 0]

NumberIsInteger(num) == num.kind \in {"int", "huge"}

(***************************************************************************)
(* Responses: res.status(...).json(...).                                   *)
(***************************************************************************)
NoProfile == [id |-> 0, username |-> <<>>, email |-> <<>>]

Response(status, error, details, rows, message, taskId) ==
    [status |-> status, error |-> error, details |-> details, rows |-> rows,
     message |-> message, taskId |-> taskId, token |-> NoJwt, user |-> NoProfile]

ErrorResponse(status, error) == Response(status, error, <<>>, <<>>, "", 0)

InvalidInput(details) == Response(400, "Invalid input", details, <<>>, "", 0)

NoResponse == Response(0, "", <<>>, <<>>, "", 0)

\* validatePositiveIntParam(res, name, rawValue)
\* the check with parsed < 0 for parsed <= 0
validatePositiveIntParam_AcceptsZero(name, rawValue) ==
    LET parsed == JsNumber(rawValue)
    IN  IF ~NumberIsInteger(parsed) \/ parsed.val < 0
        THEN [ok |-> FALSE, value |-> parsed,
              response |-> InvalidInput(
                  <<[field |-> name, message |-> name \o " must be a positive integer."]>>)]
        ELSE [ok |-> TRUE, value |-> parsed, response |-> NoResponse]

\* validatePositiveIntParam(res, name, rawValue)
validatePositiveIntParam(name, rawValue) ==
    LET parsed == JsNumber(rawValue)
    IN  IF ~NumberIsInteger(parsed) \/ parsed.val <= 0
        THEN [ok |-> FALSE, value |-> parsed,
              response |-> InvalidInput(
                  <<[field |-> name, message |-> name \o " must be a positive integer."]>>)]
        ELSE [ok |-> TRUE, value |-> parsed, response |-> NoResponse]

(***************************************************************************)
(* SQL statements handed to pool.query, with their parameters.             *)
(***************************************************************************)
NoCols == [title |-> Undef, description |-> Undef, completed |-> Undef]
NoNumber == [kind |-> "NaN", val |-> 0]

Sql(op, userId, taskId, cols) ==
    [op |-> op, userId |-> userId, taskId |-> taskId, cols |-> cols]

NoSql == Sql("none", NoUser, NoNumber, NoCols)

\* what a handler's synchronous part ends in: a response, or a statement
Respond(response) == [respond |-> TRUE, response |-> response, sql |-> NoSql]
Query(sql) == [respond |-> FALSE, response |-> NoResponse, sql |-> sql]

\* router.get("/")
getTasks(userId) == Query(Sql("SELECT", userId, NoNumber, NoCols))

\* a create that lets the body name the owner
postTask_OwnerFromBody(userId, body) ==
    LET parsed == createTaskSchema([body EXCEPT !.user_id = Undef])
        owner == IF body.user_id.t = "number" THEN body.user_id.n ELSE userId
    IN  IF ~parsed.success
        THEN Respond(InvalidInput(formatZodError(parsed.issues)))
        ELSE Query(Sql("INSERT", owner, NoNumber,
                       [title |-> parsed.data.title,
                        description |-> IF parsed.data.description.t # "undefined"
                                        THEN parsed.data.description ELSE Null,
                        completed |-> Undef]))

\* router.post("/")
postTask(userId, body) ==
    LET parsed == createTaskSchema(body)
    IN  IF ~parsed.success
        THEN Respond(InvalidInput(formatZodError(parsed.issues)))
        ELSE LET normalizedDescription ==
                     IF parsed.data.description.t # "undefined"
                     THEN parsed.data.description ELSE Null
             IN  Query(Sql("INSERT", userId, NoNumber,
                           [title |-> parsed.data.title,
                            description |-> normalizedDescription,
                            completed |-> Undef]))

\* an update that validates the body before the id
putTask_BodyFirst(userId, rawId, body) ==
    LET idCheck == validatePositiveIntParam("id", rawId)
        parsed == updateTaskSchema(body)
    IN  IF ~parsed.success
        THEN Respond(InvalidInput(formatZodError(parsed.issues)))
        ELSE IF ~idCheck.ok THEN Respond(idCheck.response)
        ELSE Query(Sql("UPDATE", userId, idCheck.value,
                       [title |-> parsed.data.title,
                        description |-> parsed.data.description,
                        completed |-> parsed.data.completed]))

\* router.put("/:id")
putTask(userId, rawId, body) ==
    LET idCheck == validatePositiveIntParam("id", rawId)
        parsed == updateTaskSchema(body)
    IN  IF ~idCheck.ok THEN Respond(idCheck.response)
        ELSE IF ~parsed.success
        THEN Respond(InvalidInput(formatZodError(parsed.issues)))
        ELSE Query(Sql("UPDATE", userId, idCheck.value,
                       [title |-> parsed.data.title,
                        description |-> parsed.data.description,
                        completed |-> parsed.data.completed]))

\* router.delete("/:id")
deleteTask(userId, rawId) ==
    LET idCheck == validatePositiveIntParam("id", rawId)
    IN  IF ~idCheck.ok THEN Respond(idCheck.response)
        ELSE Query(Sql("DELETE", userId, idCheck.value, NoCols))

(***************************************************************************)
(* A request to /api/tasks, and the router: router.use(authMiddleware)     *)
(* first, then the route's handler.  ran lists the functions that ran.     *)
(***************************************************************************)
Request(method, header, id, body) ==
    [method |-> method, header |-> header, id |-> id, body |-> body]

handler(req, userId) ==
    CASE req.method = "GET" -> getTasks(userId)
      [] req.method = "POST" -> postTask(userId, req.body)
      [] req.method = "PUT" -> putTask(userId, req.id, req.body)
      [] req.method = "DELETE" -> deleteTask(userId, req.id)

\* the routes registered before router.use(authMiddleware): the handler runs
\* unguarded, and reading req.user.userId throws
taskRoutes_HandlerFirst(req, now) ==
    [ran |-> <<"handler">>, userId |-> NoUser,
     out |-> Respond(ErrorResponse(500, "Internal Server Error"))]

taskRoutes(req, now) ==
    LET guard == authMiddleware(req.header, now)
    IN  IF ~guard.next
        THEN [ran |-> <<"authMiddleware">>, userId |-> guard.userId,
              out |-> Respond(ErrorResponse(guard.status, guard.error))]
        ELSE [ran |-> <<"authMiddleware", "handler">>, userId |-> guard.userId,
              out |-> handler(req, guard.userId)]

(***************************************************************************)
(* The tasks table.  INSERT names user_id, title and description; id,      *)
(* completed and created_at get the column defaults.                       *)
(***************************************************************************)
TaskDefaults(id, now) == [id |-> id, completed |-> FALSE, created_at |-> now]

\* RETURNING id, title, description, completed, created_at
Returning(id, row) ==
    [id |-> id, title |-> row.title, description |-> row.description,
     completed |-> row.completed, created_at |-> row.created_at]

\* the parameter is sent as text; an integer column takes an integer in its range
PgInteger(num) == num.kind = "int"

\* a WHERE clause without the ownership predicate
Matches_AnyOwner(table, userId, taskId) ==
    {id \in DOMAIN table : id = taskId.val}

\* WHERE user_id = $1 AND id = $2
Matches(table, userId, taskId) ==
    {id \in DOMAIN table : table[id].user_id = userId /\ id = taskId.val}

\* WHERE user_id = $1 without ORDER BY: the rows in any order
SelectTasks_Unordered(table, userId) ==
    LET ids == {id \in DOMAIN table : table[id].user_id = userId}
        n == Cardinality(ids)
    IN  {[i \in 1..n |-> Returning(f[i], table[f[i]])] :
            f \in {g \in [1..n -> ids] : \A i, j \in 1..n : i # j => g[i] # g[j]}}

\* WHERE user_id = $1 ORDER BY created_at DESC: every order the sort allows
SelectTasks(table, userId) ==
    LET ids == {id \in DOMAIN table : table[id].user_id = userId}
        n == Cardinality(ids)
    IN  {[i \in 1..n |-> Returning(f[i], table[f[i]])] :
            f \in {g \in [1..n -> ids] :
                    /\ \A i, j \in 1..n : i # j => g[i] # g[j]
                    /\ \A i, j \in 1..n :
                         i < j => table[g[i]].created_at >= table[g[j]].created_at}}

\* UPDATE tasks SET title = .., description = .., completed = ..: every column,
\* an absent one as its empty value
UpdateRow_AllColumns(row, cols) ==
    [row EXCEPT
        !.title = IF cols.title.t # "undefined" THEN cols.title.s ELSE @,
        !.description = IF cols.description.t # "undefined" THEN cols.description ELSE Null,
        !.completed = IF cols.completed.t # "undefined" THEN cols.completed.b ELSE FALSE]

\* UPDATE tasks SET <the columns given> WHERE user_id = .. AND id = ..
UpdateRow(row, cols) ==
    [row EXCEPT
        !.title = IF cols.title.t # "undefined" THEN cols.title.s ELSE @,
        !.description = IF cols.description.t # "undefined" THEN cols.description ELSE @,
        !.completed = IF cols.completed.t # "undefined" THEN cols.completed.b ELSE @]

\* an UPDATE that is undone: the table as it was
UpdateTasks_Unwritten(table, sql) == table

UpdateTasks(table, sql) ==
    [id \in DOMAIN table |->
        IF id \in Matches(table, sql.userId, sql.taskId)
        THEN UpdateRow(table[id], sql.cols) ELSE table[id]]

\* DELETE FROM tasks WHERE user_id = .. AND id = ..
DeleteTasks(table, sql) ==
    [id \in DOMAIN table \ Matches(table, sql.userId, sql.taskId) |-> table[id]]

\* INSERT INTO tasks (user_id, title, description)
InsertTask(table, sql, id, now) ==
    LET d == TaskDefaults(id, now)
    IN  table @@ (d.id :> [user_id |-> sql.userId, title |-> sql.cols.title.s,
                           description |-> sql.cols.description,
                           completed |-> d.completed, created_at |-> d.created_at])

RowsOf(table, ids) ==
    IF ids = {} THEN <<>>
    ELSE LET id == CHOOSE i \in ids : TRUE IN <<Returning(id, table[id])>>

\* errorHandler(err, req, res, next)
errorHandler(err) ==
    LET statusCode == IF err.statusCode # 0 THEN err.statusCode ELSE 500
    IN  ErrorResponse(statusCode,
                      IF statusCode = 500 THEN "Internal Server Error" ELSE err.message)

\* exceptions: what pool.query throws has no statusCode; what express.json
\* passes to next(err) on a body that is not JSON has statusCode 400 and the
\* parser's message
NoError == [statusCode |-> 0, message |-> ""]
PgError == [statusCode |-> 0, message |-> "invalid input syntax for type integer"]
ConnectionError == [statusCode |-> 0, message |-> "connect ECONNREFUSED 127.0.0.1:5432"]
JsonSyntaxError == [statusCode |-> 400, message |-> "Unexpected end of JSON input"]

\* the catch block of a route, on what pool.query threw
catchResponse(method, err) ==
    CASE method = "GET" -> ErrorResponse(500, "Failed to fetch tasks.")
      [] method = "POST" -> ErrorResponse(500, "Failed to create task.")
      [] method = "PUT" -> errorHandler(err)
      [] OTHER -> ErrorResponse(500, "Failed to delete task.")

\* an update handler that takes the rows returned for none
putResponse_NotFound(rows) == ErrorResponse(404, "Task not found.")

\* the handler's continuation after `await pool.query`, on the rows returned
putResponse(rows) ==
    IF Len(rows) = 0 THEN ErrorResponse(404, "Task not found.")
    ELSE Response(200, "", <<>>, rows, "", 0)

\* a DELETE handler that does not look at the rows removed
deleteResponse_AlwaysDeleted(rows) ==
    Response(200, "", <<>>, <<>>, "Task deleted.", IF Len(rows) = 0 THEN 0 ELSE rows[1].id)

deleteResponse(rows) ==
    IF Len(rows) = 0 THEN ErrorResponse(404, "Task not found.")
    ELSE Response(200, "", <<>>, <<>>, "Task deleted.", rows[1].id)

(***************************************************************************)
(* POST /api/auth/login.  Strings are sequences of characters.             *)
(***************************************************************************)
\* !v
JsFalsy(v) ==
    CASE v.t \in {"undefined", "null"} -> TRUE
      [] v.t = "string" -> v.s = <<>>
      [] v.t = "number" -> v.n = 0
      [] OTHER -> ~v.b

NoSpaceOrAt(s, from, to) == \A k \in from..to : ~IsSpace(s[k]) /\ s[k] # "@"

\* /^[^\s@]+@[^\s@]+\.[^\s@]+$/.test(email)
isValidEmail(email) ==
    /\ email.t = "string"
    /\ \E at \in 2..Len(email.s), dot \in 1..Len(email.s) :
          /\ email.s[at] = "@"
          /\ email.s[dot] = "."
          /\ at + 1 < dot
          /\ dot < Len(email.s)
          /\ NoSpaceOrAt(email.s, 1, at - 1)
          /\ NoSpaceOrAt(email.s, at + 1, Len(email.s))

UpperCase == ("A" :> "a") @@ ("B" :> "b") @@ ("C" :> "c") @@ ("E" :> "e") @@ ("X" :> "x")

\* String.prototype.toLowerCase
ToLowerCase(s) ==
    [k \in 1..Len(s) |-> IF s[k] \in DOMAIN UpperCase THEN UpperCase[s[k]] ELSE s[k]]

\* bcrypt uses the first 72 bytes of a password and ignores the rest
BcryptBytes == 72

BcryptKey(password) ==
    IF Len(password) > BcryptBytes THEN SubSeq(password, 1, BcryptBytes) ELSE password

\* bcrypt.hash(password, saltRounds) with a fresh salt, bcrypt.compare
BcryptHash(password, salt) == [password |-> BcryptKey(password), salt |-> salt]
BcryptCompare(password, hash) == hash.password = BcryptKey(password)

Credentials(email, password) == [email |-> email, password |-> password]

\* SELECT id, username, email, password_hash FROM users WHERE email = $1
SelectUsers(table, email) == {id \in DOMAIN table : table[id].email = email}

\* a login that tells an unknown address from a wrong password
login_UnknownEmail(table, body, now) ==
    IF JsFalsy(body.email) \/ ~isValidEmail(body.email)
    THEN ErrorResponse(400, "Please provide a valid email address.")
    ELSE IF JsFalsy(body.password) \/ body.password.t # "string"
    THEN ErrorResponse(400, "Password is required.")
    ELSE LET rows == SelectUsers(table, ToLowerCase(body.email.s))
         IN  IF rows = {}
             THEN ErrorResponse(401, "No account with this email.")
             ELSE LET id == CHOOSE i \in rows : TRUE
                      user == table[id]
                  IN  IF ~BcryptCompare(body.password.s, user.password_hash)
                      THEN ErrorResponse(401, "Invalid email or password.")
                      ELSE [Response(200, "", <<>>, <<>>, "", 0) EXCEPT
                               !.token = JwtSign(id, now),
                               !.user = [id |-> id, username |-> user.username,
                                         email |-> user.email]]

\* router.post("/login"), on the users table as the SELECT finds it
login(table, body, now) ==
    IF JsFalsy(body.email) \/ ~isValidEmail(body.email)
    THEN ErrorResponse(400, "Please provide a valid email address.")
    ELSE IF JsFalsy(body.password) \/ body.password.t # "string"
    THEN ErrorResponse(400, "Password is required.")
    ELSE LET rows == SelectUsers(table, ToLowerCase(body.email.s))
         IN  IF rows = {}
             THEN ErrorResponse(401, "Invalid email or password.")
             ELSE LET id == CHOOSE i \in rows : TRUE
                      user == table[id]
                  IN  IF ~BcryptCompare(body.password.s, user.password_hash)
                      THEN ErrorResponse(401, "Invalid email or password.")
                      ELSE [Response(200, "", <<>>, <<>>, "", 0) EXCEPT
                               !.token = JwtSign(id, now),
                               !.user = [id |-> id, username |-> user.username,
                                         email |-> user.email]]

(***************************************************************************)
(* State.                                                                  *)
(***************************************************************************)
Done(req, ran, userId, response, target) ==
    [req |-> req, ran |-> ran, userId |-> userId, response |-> response,
     target |-> target, at |-> clock, err |-> NoError, taken |-> FALSE]

NoRequest == Request("", NoHeader, NoParam, Body(Undef, Undef, Undef, Undef))
NoneDone ==
    [req |-> NoRequest, ran |-> <<>>, userId |-> NoUser, response |-> NoResponse,
     target |-> "", at |-> 0, err |-> NoError, taken |-> FALSE]

\* the server has been up for longer than a token lives
StartClock == ExpiresIn * MsPerSecond + 500

\* half of a token's life, in milliseconds
HalfLife == (ExpiresIn * MsPerSecond) \div 2

UserRow(username, email, passwordHash) ==
    [username |-> username, email |-> email, password_hash |-> passwordHash]

(***************************************************************************)
(* POST /api/auth/register: validation, the uniqueness SELECT, bcrypt.hash *)
(* and the INSERT, with awaits in between.                                 *)
(***************************************************************************)
RegisterBody(username, email, password) ==
    [username |-> username, email |-> email, password |-> password]

MinUsername == 3
MinPassword == 8

\* the input validation of router.post("/register"): a 400, or NoResponse
registerValidate(body) ==
    IF \/ JsFalsy(body.username)
       \/ body.username.t # "string"
       \/ Len(Trim(body.username.s)) < MinUsername
    THEN ErrorResponse(400, "Username must be at least 3 characters.")
    ELSE IF JsFalsy(body.email) \/ ~isValidEmail(body.email)
    THEN ErrorResponse(400, "Please provide a valid email address.")
    ELSE IF \/ JsFalsy(body.password)
            \/ body.password.t # "string"
            \/ Len(body.password.s) < MinPassword
    THEN ErrorResponse(400, "Password must be at least 8 characters.")
    ELSE NoResponse

\* a uniqueness check by email alone
SelectExisting_EmailOnly(table, username, email) ==
    {id \in DOMAIN table : table[id].email = email}

\* SELECT id FROM users WHERE username = $1 OR email = $2
SelectExisting(table, username, email) ==
    {id \in DOMAIN table : table[id].username = username \/ table[id].email = email}

\* the row of INSERT INTO users (username, email, password_hash)
registerRow(body, salt) ==
    UserRow(Trim(body.username.s), ToLowerCase(body.email.s),
            BcryptHash(body.password.s, salt))

\* the users table keeps username and email unique: the INSERT of a row that
\* shares either with a stored row fails
UniqueViolation(table, row) == SelectExisting(table, row.username, row.email) # {}

\* the response of a registration, after the INSERT or its failure
registerResponse(table, id, row, now) ==
    IF UniqueViolation(table, row)
    THEN ErrorResponse(500, "Server error during registration.")
    ELSE [Response(201, "", <<>>, <<>>, "", 0) EXCEPT
             !.user = [id |-> id, username |-> row.username, email |-> row.email,
                       created_at |-> now]]

(***************************************************************************)
(* The browser.  location is the route shown; tasks, loaded and error are  *)
(* the state of the tasks page; op is the handler that is awaiting, calls  *)
(* the requests it awaits, done those answered well, stale the writes      *)
(* still in flight that no handler awaits any more.  last.taken says that  *)
(* the browser has taken the response.                                     *)
(***************************************************************************)
\* no tasks page: the login page is shown
Unmounted ==
    [location |-> "/login", tasks |-> <<>>, loaded |-> FALSE, error |-> FALSE,
     op |-> "", calls |-> {}, done |-> {}, stale |-> {}]

\* api.interceptors.request: Authorization: Bearer <stm_token>, if there is one
AxiosHeader(token) == IF token # NoJwt THEN Bearer(token) ELSE NoHeader

\* the writes among the calls: a read left in flight changes nothing
Writes(calls) == {req \in calls : req.method # "GET"}

\* <Tasks /> mounts with its initial state, and its effect calls loadTasks
Mount(c, token) ==
    [c EXCEPT !.location = "/tasks", !.tasks = <<>>, !.loaded = FALSE, !.error = FALSE,
              !.op = "load",
              !.calls = {Request("GET", AxiosHeader(token), NoParam,
                                 Body(Undef, Undef, Undef, Undef))},
              !.done = {}, !.stale = c.stale \cup Writes(c.calls)]

\* navigate("/login"): <Tasks /> unmounts, its calls stay in flight
Unmount(c) ==
    [c EXCEPT !.location = "/login", !.tasks = <<>>, !.loaded = FALSE, !.error = FALSE,
              !.op = "", !.calls = {}, !.done = {},
              !.stale = c.stale \cup Writes(c.calls)]

EmailA == <<"a", "@", "x", ".", "c">>
EmailB == <<"b", "@", "x", ".", "c">>

PasswordA == <<"p", "a", "s", "s", "w", "o", "r", "d">>
PasswordB == <<"1", "2", "3", "4", "5", "6", "7", "8">>

TwoUsers ==
    (1 :> UserRow(<<"a", "l", "i">>, EmailA, BcryptHash(PasswordA, 1)))
    @@ (2 :> UserRow(<<"b", "o", "b">>, EmailB, BcryptHash(PasswordB, 2)))

Init ==
    /\ users = TwoUsers
    /\ tasks = <<>>
    /\ nextTaskId = 1
    /\ clock = StartClock
    /\ localStorage = NoJwt
    /\ last = NoneDone
    /\ creator = <<>>
    /\ issued = {}
    /\ registering = {}
    /\ client = Unmounted

\* the user id a request's token carries, whoever signed it
TokenUser(req) ==
    IF Len(req.header.parts) = 2 THEN req.header.parts[2].tok.userId ELSE NoUser

\* which task the :id of a statement names, seen from the caller
Target(table, sql) ==
    IF ~PgInteger(sql.taskId) THEN "out of range"
    ELSE IF sql.taskId.val \notin DOMAIN table THEN "absent"
    ELSE IF table[sql.taskId.val].user_id = sql.userId THEN "own"
    ELSE "foreign"

(***************************************************************************)
(* Actions: one request to /api/tasks, from the router to the response.    *)
(***************************************************************************)
Finish(req, routed, response, target) ==
    last' = Done(req, routed.ran \o <<"query">>, routed.userId, response, target)

\* pool.query threw err, and the route's catch block answered
FinishFailed(req, routed, err, target) ==
    last' = [Done(req, routed.ran \o <<"query", "catch">>, routed.userId,
                  catchResponse(req.method, err), target) EXCEPT !.err = err]

\* the guard or the validation answered: no statement is issued
Reject(req, routed) ==
    /\ routed.out.respond
    /\ last' = Done(req, routed.ran, routed.userId, routed.out.response, "")
    /\ UNCHANGED <<users, tasks, nextTaskId, clock, localStorage, creator, issued, registering, client>>

\* GET: the SELECT runs and the handler answers
ExecuteSelect(req, routed) ==
    /\ ~routed.out.respond
    /\ routed.out.sql.op = "SELECT"
    /\ \E rows \in SelectTasks(tasks, routed.out.sql.userId) :
          Finish(req, routed, Response(200, "", <<>>, rows, "", 0), "")
    /\ UNCHANGED <<users, tasks, nextTaskId, clock, localStorage, creator, issued, registering, client>>

\* POST: the INSERT runs and the handler answers
ExecuteInsert(req, routed) ==
    /\ ~routed.out.respond
    /\ routed.out.sql.op = "INSERT"
    /\ nextTaskId <= MaxTasks
    /\ tasks' = InsertTask(tasks, routed.out.sql, nextTaskId, clock)
    /\ nextTaskId' = nextTaskId + 1
    /\ creator' = creator @@ (nextTaskId :> TokenUser(req))
    /\ Finish(req, routed,
              Response(201, "", <<>>, RowsOf(tasks', {nextTaskId}), "", 0), "")
    /\ UNCHANGED <<users, clock, localStorage, issued, registering, client>>

\* PUT: the UPDATE runs and the handler answers; a database error goes to
\* next(err), the central error handler
ExecuteUpdate(req, routed) ==
    LET sql == routed.out.sql
    IN  /\ ~routed.out.respond
        /\ sql.op = "UPDATE"
        /\ IF PgInteger(sql.taskId)
           THEN /\ tasks' = UpdateTasks(tasks, sql)
                /\ Finish(req, routed,
                          putResponse(RowsOf(tasks', Matches(tasks, sql.userId, sql.taskId))),
                          Target(tasks, sql))
           ELSE /\ tasks' = tasks
                /\ FinishFailed(req, routed, PgError, Target(tasks, sql))
        /\ UNCHANGED <<users, nextTaskId, clock, localStorage, creator, issued, registering, client>>

\* DELETE: the DELETE runs and the handler answers; a database error is caught
ExecuteDelete(req, routed) ==
    LET sql == routed.out.sql
    IN  /\ ~routed.out.respond
        /\ sql.op = "DELETE"
        /\ IF PgInteger(sql.taskId)
           THEN /\ tasks' = DeleteTasks(tasks, sql)
                /\ Finish(req, routed,
                          deleteResponse(RowsOf(tasks, Matches(tasks, sql.userId, sql.taskId))),
                          Target(tasks, sql))
           ELSE /\ tasks' = tasks
                /\ FinishFailed(req, routed, PgError, Target(tasks, sql))
        /\ UNCHANGED <<users, nextTaskId, clock, localStorage, creator, issued, registering, client>>

ListTasks(req) ==
    LET routed == taskRoutes(req, clock)
    IN  /\ req.method = "GET"
        /\ Reject(req, routed) \/ ExecuteSelect(req, routed)

CreateTask(req) ==
    LET routed == taskRoutes(req, clock)
    IN  /\ req.method = "POST"
        /\ Reject(req, routed) \/ ExecuteInsert(req, routed)

UpdateTask(req) ==
    LET routed == taskRoutes(req, clock)
    IN  /\ req.method = "PUT"
        /\ Reject(req, routed) \/ ExecuteUpdate(req, routed)

DeleteTask(req) ==
    LET routed == taskRoutes(req, clock)
    IN  /\ req.method = "DELETE"
        /\ Reject(req, routed) \/ ExecuteDelete(req, routed)

\* the database fails a statement (the connection is lost): pool.query throws,
\* nothing is written, and the route's catch block answers
StorageFailure(req, err) ==
    LET routed == taskRoutes(req, clock)
    IN  /\ ~routed.out.respond
        /\ FinishFailed(req, routed, err, "")
        /\ UNCHANGED <<users, tasks, nextTaskId, clock, localStorage, creator, issued, registering, client>>

\* a request whose body is not JSON: express.json() passes the parser's error
\* to next(err), and the central error handler answers, before any route
\* (req.body is never set)
MalformedJson(req) ==
    /\ last' = [Done([req EXCEPT !.body = NoRequest.body],
                     <<"express.json", "errorHandler">>, NoUser,
                     errorHandler(JsonSyntaxError), "") EXCEPT !.err = JsonSyntaxError]
    /\ UNCHANGED <<users, tasks, nextTaskId, clock, localStorage, creator, issued, registering, client>>

\* POST /api/auth/register up to its first await that can be overtaken: the
\* validation answers 400, the uniqueness SELECT answers 409, or the request
\* goes on to hash the password
RegisterCheck(body, slot) ==
    LET req == Request("POST /api/auth/register", NoHeader, NoParam, body)
        invalid == registerValidate(body)
    IN  /\ Cardinality(DOMAIN users) + Cardinality(registering) < MaxUsers
        /\ \A r \in registering : r.slot # slot
        /\ IF invalid # NoResponse
           THEN /\ last' = Done(req, <<"register">>, NoUser, invalid, "")
                /\ registering' = registering
           ELSE IF SelectExisting(users, Trim(body.username.s),
                                  ToLowerCase(body.email.s)) # {}
           THEN /\ last' = Done(req, <<"register", "select">>, NoUser,
                                ErrorResponse(409, "Username or email already in use."), "")
                /\ registering' = registering
           ELSE /\ registering' = registering \cup {[slot |-> slot, body |-> body]}
                /\ last' = last
        /\ UNCHANGED <<users, tasks, nextTaskId, clock, localStorage, creator, issued, client>>

\* the rest of a registration: the INSERT, and the 201 or the catch block's 500
RegisterInsert(r) ==
    LET req == Request("POST /api/auth/register", NoHeader, NoParam, r.body)
        id == Cardinality(DOMAIN users) + 1
        row == registerRow(r.body, id)
    IN  /\ r \in registering
        /\ registering' = registering \ {r}
        /\ users' = IF UniqueViolation(users, row) THEN users ELSE users @@ (id :> row)
        /\ last' = Done(req, <<"register", "select", "hash", "insert">>, NoUser,
                        registerResponse(users, id, row, clock), "")
        /\ UNCHANGED <<tasks, nextTaskId, clock, localStorage, creator, issued, client>>

\* Login.jsx handleSubmit: POST /api/auth/login, then saveToken on a token and
\* navigate("/tasks")
LoginSubmit(body) ==
    LET response == login(users, body, clock)
        req == Request("POST /api/auth/login", NoHeader, NoParam, body)
    IN  /\ last' = [Done(req, <<"login">>, NoUser, response, "") EXCEPT !.taken = TRUE]
        /\ IF response.token # NoJwt
           THEN /\ issued' = issued \cup {[token |-> response.token, at |-> clock]}
                /\ localStorage' = response.token
                /\ client' = Mount(client, response.token)
           ELSE UNCHANGED <<issued, localStorage, client>>
        /\ UNCHANGED <<users, tasks, nextTaskId, clock, creator, registering>>

\* Tasks.jsx handleLogout: clearToken, navigate("/login")
Logout ==
    /\ localStorage # NoJwt
    /\ localStorage' = NoJwt
    /\ client' = Unmount(client)
    /\ UNCHANGED <<users, tasks, nextTaskId, clock, last, creator, issued, registering>>

\* time passes
Advance(ms) ==
    /\ clock + ms <= StartClock + MaxHours * HalfLife
    /\ clock' = clock + ms
    /\ UNCHANGED <<users, tasks, nextTaskId, localStorage, last, creator, issued, registering, client>>

(***************************************************************************)
(* The tasks page.  A handler sends its calls and awaits them; Receive is  *)
(* its continuation when a response arrives.  Promise.all rejects with the *)
(* first rejection and leaves the other calls in flight.                   *)
(***************************************************************************)
\* the tasks page is shown, no handler of it is awaiting, and the calls an
\* earlier handler left behind have been answered
Idle == client.location = "/tasks" /\ client.op = "" /\ client.stale = {}

\* a call of api/tasks.js, with the header the interceptor adds
Call(method, id, body) == Request(method, AxiosHeader(localStorage), id, body)

\* a handler clears the error, sends its calls and awaits them
Await(op, calls) ==
    /\ client' = [client EXCEPT !.op = op, !.calls = calls, !.done = {}, !.error = FALSE]
    /\ UNCHANGED <<users, tasks, nextTaskId, clock, localStorage, last, creator, issued,
                   registering>>

\* the positions of the tasks shown that are completed, or are not
Shown(completed) == {i \in DOMAIN client.tasks : client.tasks[i].completed = completed}

\* a visit of /tasks: ProtectedRoute redirects to /login without a token, and
\* mounts the tasks page with one
Visit ==
    /\ client.op = ""
    /\ client' = IF localStorage = NoJwt THEN Unmount(client)
                 ELSE Mount(client, localStorage)
    /\ UNCHANGED <<users, tasks, nextTaskId, clock, localStorage, last, creator, issued,
                   registering>>

\* Tasks.jsx handleAdd
handleAdd(title) ==
    /\ Idle
    /\ nextTaskId <= MaxTasks
    /\ IF Trim(title) = <<>>
       THEN /\ client' = [client EXCEPT !.error = TRUE]
            /\ UNCHANGED <<users, tasks, nextTaskId, clock, localStorage, last, creator,
                           issued, registering>>
       ELSE Await("add", {Call("POST", NoParam,
                               Body(Str(Trim(title)), Undef, Undef, Undef))})

\* Tasks.jsx handleToggle
handleToggle(i) ==
    /\ Idle
    /\ i \in DOMAIN client.tasks
    /\ Await("toggle", {Call("PUT", Dec(client.tasks[i].id),
                              Body(Undef, Undef, Bool(~client.tasks[i].completed), Undef))})

\* Tasks.jsx handleDelete, confirmed
handleDelete(i) ==
    /\ Idle
    /\ i \in DOMAIN client.tasks
    /\ Await("delete", {Call("DELETE", Dec(client.tasks[i].id),
                              Body(Undef, Undef, Undef, Undef))})

\* Tasks.jsx handleClearCompleted, confirmed
handleClearCompleted ==
    /\ Idle
    /\ Shown(TRUE) # {}
    /\ Await("clear", {Call("DELETE", Dec(client.tasks[i].id),
                             Body(Undef, Undef, Undef, Undef)) : i \in Shown(TRUE)})

\* Tasks.jsx handleMarkAllComplete, confirmed
handleMarkAllComplete ==
    /\ Idle
    /\ Shown(FALSE) # {}
    /\ Await("markAll", {Call("PUT", Dec(client.tasks[i].id),
                               Body(Undef, Undef, Bool(TRUE), Undef)) : i \in Shown(FALSE)})

\* a response the browser has not taken yet, to a call that is in flight
Undelivered ==
    /\ ~last.taken
    /\ last.response.status # 0
    /\ last.req \in client.calls \cup client.stale

\* the calls the server may handle next: one response travels at a time
InFlight == IF Undelivered THEN {} ELSE client.calls \cup client.stale

\* prev.filter((t) => keep(t))
RECURSIVE Filter(_, _)
Filter(list, keep) ==
    IF list = <<>> THEN <<>>
    ELSE IF Head(list).id \in keep THEN <<Head(list)>> \o Filter(Tail(list), keep)
    ELSE Filter(Tail(list), keep)

\* prev.map((t) => rows.find((u) => u.id === t.id) ?? t)
Replace(list, rows) ==
    [i \in DOMAIN list |->
        IF \E u \in rows : u.id = list[i].id
        THEN CHOOSE u \in rows : u.id = list[i].id
        ELSE list[i]]

\* the handler's code after its await resolved: setTasks
Settle(c, req, response) ==
    LET left == c.calls \ {req}
        done == c.done \cup {[req |-> req, rows |-> response.rows]}
        ids == {c.tasks[i].id : i \in DOMAIN c.tasks}
        ended == [c EXCEPT !.op = "", !.calls = {}, !.done = done]
    IN  CASE c.op = "load" ->
                [ended EXCEPT !.tasks = response.rows, !.loaded = TRUE, !.done = {}]
          [] c.op = "add" ->
                [ended EXCEPT !.tasks = <<response.rows[1]>> \o c.tasks, !.done = {}]
          [] c.op = "toggle" ->
                [ended EXCEPT !.tasks = Replace(c.tasks, {response.rows[1]}), !.done = {}]
          [] c.op = "delete" ->
                [ended EXCEPT !.tasks = Filter(c.tasks, ids \ {req.id.n}), !.done = {}]
          [] left # {} -> [c EXCEPT !.calls = left, !.done = done]
          [] c.op = "clear" ->
                [ended EXCEPT !.tasks =
                    Filter(c.tasks, {c.tasks[i].id : i \in
                                        {j \in DOMAIN c.tasks : ~c.tasks[j].completed}})]
          [] OTHER ->
                [ended EXCEPT !.tasks = Replace(c.tasks, {d.rows[1] : d \in done})]

\* the handler's catch block on another status than 401: setError; the calls
\* not yet answered stay in flight
Fail(c, req) ==
    [c EXCEPT !.op = "", !.calls = {}, !.error = TRUE,
              !.stale = c.stale \cup Writes(c.calls \ {req})]

\* a response arrives: at the handler that awaits its call, or at nobody
Receive ==
    LET req == last.req
        response == last.response
    IN  /\ Undelivered
        /\ last' = [last EXCEPT !.taken = TRUE]
        /\ IF req \notin client.calls
           THEN /\ client' = [client EXCEPT !.stale = @ \ {req}]
                /\ localStorage' = localStorage
           ELSE IF response.status \in 200..299
           THEN /\ client' = Settle(client, req, response)
                /\ localStorage' = localStorage
           ELSE IF response.status = 401
           THEN /\ client' = Unmount([client EXCEPT !.calls = @ \ {req}])
                /\ localStorage' = NoJwt
           ELSE /\ client' = Fail(client, req)
                /\ localStorage' = localStorage
        /\ UNCHANGED <<users, tasks, nextTaskId, clock, creator, issued, registering>>

(***************************************************************************)
(* The requests the environment sends.                                     *)
(***************************************************************************)
UserIds == DOMAIN users

\* tokens in circulation: just issued, issued ExpiresIn ago, signed by another key
FreshToken(u) == JwtSign(u, clock)
ExpiredToken(u) == JwtSign(u, clock - ExpiresIn * MsPerSecond)
ForgedToken(u) == [FreshToken(u) EXCEPT !.sig = "bad"]

GoodHeaders == {Bearer(FreshToken(u)) : u \in UserIds}

BadHeaders ==
    {NoHeader,
     Header(<<Word("")>>),
     Header(<<Jwt(FreshToken(1))>>),
     Header(<<Word("Basic"), Jwt(FreshToken(1))>>),
     Header(<<Word("Bearer"), Word(""), Jwt(FreshToken(1))>>),
     Header(<<Word("Bearer"), Word("abc")>>),
     Bearer(ForgedToken(1)),
     Bearer(ExpiredToken(1))}

A == <<"a">>
B == <<" ", "b", " ">>
Blank == <<" ">>
NoBody == Body(Undef, Undef, Undef, Undef)

\* bodies for POST: one the schema accepts, and one for each way it rejects
CreateBodies ==
    {Body(Str(A), Undef, Undef, Undef),
     NoBody,
     Body(Str(Blank), Undef, Undef, Undef),
     Body(Num(7), Undef, Undef, Undef),
     Body(Str(A), Null, Undef, Undef),
     Body(Str(A), Undef, Bool(TRUE), Undef),
     Body(Str(A), Undef, Undef, Num(7)),
     Body(Undef, Undef, Undef, Str(A))}

\* bodies for PUT: one the schema accepts, and one for each way it rejects
UpdateBodies ==
    {Body(Undef, Undef, Bool(TRUE), Undef),
     NoBody,
     Body(Undef, Undef, Undef, Num(7)),
     Body(Str(Blank), Undef, Undef, Undef),
     Body(Undef, Str(Blank), Undef, Undef),
     Body(Undef, Null, Undef, Undef),
     Body(Undef, Undef, Str(A), Undef),
     Body(Str(A), Undef, Undef, Num(7)),
     Body(Num(7), Undef, Undef, Num(7))}

GoodIds == {Dec(n) : n \in 1..(MaxTasks + 1)}
BadIds == {Dec(0), Dec(-1), Lit("1.5"), Lit("abc")}
HugeIds == {Lit("1e22")}

Of(requests, method) == {req \in requests : req.method = method}

TitleOnly == Body(Str(A), Undef, Undef, Undef)
Complete == Body(Undef, Undef, Bool(TRUE), Undef)
\* the body with a user_id key of its own
WithUserId(body, u) == [body EXCEPT !.user_id = Num(u)]

\* the requests of two users on each other's tasks: every method, every id,
\* bodies with and without a user_id of their own
OwnerRequests ==
    {Request("GET", h, NoParam, NoBody) : h \in GoodHeaders}
    \cup {Request("POST", h, NoParam, b) :
            h \in GoodHeaders, b \in {TitleOnly} \cup {WithUserId(TitleOnly, u) : u \in UserIds}}
    \cup {Request("PUT", h, id, b) :
            h \in GoodHeaders, id \in GoodIds \cup HugeIds,
            b \in {Complete} \cup {WithUserId(Complete, u) : u \in UserIds}}
    \cup {Request("DELETE", h, id, NoBody) :
            h \in GoodHeaders, id \in GoodIds \cup HugeIds}

\* every method under every header, with a valid id and body
GuardRequests ==
    {Request(m, h, IF m \in {"PUT", "DELETE"} THEN Dec(1) ELSE NoParam,
             CASE m = "POST" -> TitleOnly [] m = "PUT" -> Complete [] OTHER -> NoBody) :
        m \in {"GET", "POST", "PUT", "DELETE"}, h \in GoodHeaders \cup BadHeaders}

Next ==
    \/ \E req \in Of(OwnerRequests, "GET") : ListTasks(req)
    \/ \E req \in Of(OwnerRequests, "POST") : CreateTask(req)
    \/ \E req \in Of(OwnerRequests, "PUT") : UpdateTask(req)
    \/ \E req \in Of(OwnerRequests, "DELETE") : DeleteTask(req)

Spec == Init /\ [][Next]_vars

NextGuard ==
    \/ \E req \in Of(GuardRequests, "GET") : ListTasks(req)
    \/ \E req \in Of(GuardRequests, "POST") : CreateTask(req)
    \/ \E req \in Of(GuardRequests, "PUT") : UpdateTask(req)
    \/ \E req \in Of(GuardRequests, "DELETE") : DeleteTask(req)

\* the task routes under every kind of Authorization header
SpecGuard == Init /\ [][NextGuard]_vars

\* log-in forms: right and wrong passwords, an address in upper case, an
\* unknown address, no address
LoginBodies ==
    {Credentials(Str(EmailA), Str(PasswordA)),
     Credentials(Str(<<"A", "@", "X", ".", "c">>), Str(PasswordA)),
     Credentials(Str(EmailA), Str(PasswordB)),
     Credentials(Str(<<"c", "@", "x", ".", "c">>), Str(PasswordA)),
     Credentials(Str(<<"a", "@", "x">>), Str(PasswordA)),
     Credentials(Str(EmailA), Undef)}

\* whoever holds a token that was issued sends it, logged out or not
HeldHeaders == {Bearer(i.token) : i \in issued}

Durations == {HalfLife - 500, HalfLife}

NextTime ==
    \/ \E body \in LoginBodies : LoginSubmit(body)
    \/ Logout
    \/ \E ms \in Durations : Advance(ms)
    \/ \E h \in HeldHeaders : ListTasks(Request("GET", h, NoParam, NoBody))
    \/ \E h \in HeldHeaders : CreateTask(Request("POST", h, NoParam, TitleOnly))

\* logins, logouts and requests with the tokens issued, as time passes
SpecTime == Init /\ [][NextTime]_vars

\* every body on every well-formed id, the empty body and a body with an
\* unknown field on the other ids, by both users, and deletions in between
ValidationRequests ==
    {Request("POST", h, NoParam, b) : h \in GoodHeaders, b \in CreateBodies}
    \cup {Request("PUT", h, id, b) :
            h \in GoodHeaders, id \in GoodIds \cup HugeIds, b \in UpdateBodies}
    \cup {Request("PUT", h, id, b) :
            h \in GoodHeaders, id \in BadIds, b \in {NoBody, WithUserId(Complete, 1)}}
    \cup {Request("DELETE", h, id, NoBody) : h \in GoodHeaders, id \in GoodIds}

NextValid ==
    \/ \E req \in Of(ValidationRequests, "POST") : CreateTask(req)
    \/ \E req \in Of(ValidationRequests, "PUT") : UpdateTask(req)
    \/ \E req \in Of(ValidationRequests, "DELETE") : DeleteTask(req)

\* the bodies the schemas accept and reject
SpecValid == Init /\ [][NextValid]_vars

\* a task with a description of its own
Described == Body(Str(A), Str(A), Undef, Undef)

\* updates of every non-empty subset of title, description and completed
SubsetBodies ==
    {Body(t, d, c, Undef) :
        t \in {Undef, Str(B)}, d \in {Undef, Str(B)}, c \in {Undef, Bool(TRUE)}}
    \ {NoBody}

\* updates with a description that is empty once trimmed, alone and beside
\* valid fields
EmptyDescriptions ==
    {Body(Undef, Str(<<>>), Undef, Undef),
     Body(Undef, Str(Blank), Undef, Undef),
     Body(Str(B), Str(Blank), Bool(TRUE), Undef)}

\* user 1 creates tasks; both users update them, field by field
FrameRequests ==
    {Request("POST", Bearer(FreshToken(1)), NoParam, Described)}
    \cup {Request("PUT", h, id, b) :
            h \in GoodHeaders, id \in GoodIds, b \in SubsetBodies \cup EmptyDescriptions}

NextFrame ==
    \/ \E req \in Of(FrameRequests, "POST") : CreateTask(req)
    \/ \E req \in Of(FrameRequests, "PUT") : UpdateTask(req)

\* partial updates
SpecFrame == Init /\ [][NextFrame]_vars

\* a title with spaces around it
Padded == Body(Str(B), Undef, Undef, Undef)

\* two users create tasks by title, list, complete and delete them
LifeRequests ==
    {Request("GET", h, NoParam, NoBody) : h \in GoodHeaders}
    \cup {Request("POST", h, NoParam, b) : h \in GoodHeaders, b \in {TitleOnly, Padded}}
    \cup {Request("PUT", h, id, Complete) : h \in GoodHeaders, id \in GoodIds}
    \cup {Request("DELETE", h, id, NoBody) : h \in GoodHeaders, id \in GoodIds}

NextLife ==
    \/ \E req \in Of(LifeRequests, "GET") : ListTasks(req)
    \/ \E req \in Of(LifeRequests, "POST") : CreateTask(req)
    \/ \E req \in Of(LifeRequests, "PUT") : UpdateTask(req)
    \/ \E req \in Of(LifeRequests, "DELETE") : DeleteTask(req)

\* the life of a task: created, listed, completed, deleted
SpecLife == Init /\ [][NextLife]_vars

\* two users update and delete by every kind of id
IdRequests ==
    {Request("POST", h, NoParam, TitleOnly) : h \in GoodHeaders}
    \cup {Request("PUT", h, id, Complete) :
            h \in GoodHeaders, id \in GoodIds \cup BadIds \cup HugeIds}
    \cup {Request("DELETE", h, id, NoBody) :
            h \in GoodHeaders, id \in GoodIds \cup BadIds \cup HugeIds}

NextIds ==
    \/ \E req \in Of(IdRequests, "POST") : CreateTask(req)
    \/ \E req \in Of(IdRequests, "PUT") : UpdateTask(req)
    \/ \E req \in Of(IdRequests, "DELETE") : DeleteTask(req)

\* the :id parameter
SpecIds == Init /\ [][NextIds]_vars

NextErrors ==
    \/ \E req \in Of(LifeRequests, "GET") : ListTasks(req)
    \/ \E req \in Of(LifeRequests, "POST") : CreateTask(req)
    \/ \E req \in Of(LifeRequests, "PUT") : UpdateTask(req)
    \/ \E req \in Of(LifeRequests, "DELETE") : DeleteTask(req)
    \/ \E req \in LifeRequests, err \in {PgError, ConnectionError} : StorageFailure(req, err)
    \/ \E req \in Of(LifeRequests, "POST") \cup Of(LifeRequests, "PUT") : MalformedJson(req)

\* the tasks router with failing statements and bodies that are not JSON
SpecErrors == Init /\ [][NextErrors]_vars

\* an email with capital letters
EmailE == <<"E", "@", "X", ".", "c">>

\* two passwords of one character more than bcrypt reads, differing in the last
LongPassword == [k \in 1..(BcryptBytes + 1) |-> "p"]
OtherLongPassword == [LongPassword EXCEPT ![BcryptBytes + 1] = "q"]

\* registrations: a new user, a stored username with spaces around it, a
\* stored email in upper case, a stored user with a short password, a short
\* username, a new user with capitals in the email and a long password
RegisterBodies ==
    {RegisterBody(Str(<<"c", "a", "l">>), Str(<<"c", "@", "x", ".", "c">>), Str(PasswordA)),
     RegisterBody(Str(<<" ", "a", "l", "i", " ">>), Str(<<"d", "@", "x", ".", "c">>),
                  Str(PasswordA)),
     RegisterBody(Str(<<"d", "a", "n">>), Str(<<"A", "@", "X", ".", "c">>), Str(PasswordA)),
     RegisterBody(Str(<<"a", "l", "i">>), Str(EmailA), Str(<<"p", "w">>)),
     RegisterBody(Str(<<"c", "a">>), Str(<<"c", "@", "x", ".", "c">>), Str(PasswordA)),
     RegisterBody(Str(<<"e", "v", "e">>), Str(EmailE), Str(LongPassword))}

\* logins of the user registered with EmailE and LongPassword
RoundTripLogins ==
    {Credentials(Str(e), Str(p)) :
        e \in {EmailE, ToLowerCase(EmailE)},
        p \in {LongPassword, OtherLongPassword, PasswordA}}

\* the requests of user 1 on their first task, and three to be refused: an
\* update by user 2, an update of nothing, a delete without a token
SoloRequests ==
    {Request("GET", Bearer(FreshToken(1)), NoParam, NoBody),
     Request("POST", Bearer(FreshToken(1)), NoParam, TitleOnly),
     Request("PUT", Bearer(FreshToken(1)), Dec(1), Complete),
     Request("DELETE", Bearer(FreshToken(1)), Dec(1), NoBody),
     Request("PUT", Bearer(FreshToken(2)), Dec(1), Complete),
     Request("PUT", Bearer(FreshToken(1)), Dec(1), NoBody),
     Request("DELETE", NoHeader, Dec(1), NoBody)}

NextUsers ==
    \/ \E body \in RegisterBodies, slot \in 1..MaxInFlight : RegisterCheck(body, slot)
    \/ \E r \in registering : RegisterInsert(r)
    \/ \E body \in LoginBodies \cup RoundTripLogins : LoginSubmit(body)
    \/ \E req \in Of(SoloRequests, "GET") : ListTasks(req)
    \/ \E req \in Of(SoloRequests, "POST") : CreateTask(req)
    \/ \E req \in Of(SoloRequests, "PUT") : UpdateTask(req)
    \/ \E req \in Of(SoloRequests, "DELETE") : DeleteTask(req)

\* registrations, concurrent with each other, among logins and task requests
SpecUsers == Init /\ [][NextUsers]_vars

\* two users create tasks at different times, list and delete them
ListRequests ==
    {Request("GET", h, NoParam, NoBody) : h \in GoodHeaders}
    \cup {Request("POST", h, NoParam, TitleOnly) : h \in GoodHeaders}
    \cup {Request("DELETE", h, id, NoBody) : h \in GoodHeaders, id \in GoodIds}

NextList ==
    \/ \E req \in Of(ListRequests, "GET") : ListTasks(req)
    \/ \E req \in Of(ListRequests, "POST") : CreateTask(req)
    \/ \E req \in Of(ListRequests, "DELETE") : DeleteTask(req)
    \/ Advance(HalfLife)

\* tasks created as time passes, listed by their owners
SpecList == Init /\ [][NextList]_vars

\* texts an update refuses: blank, empty, null
RefusedTexts == {Str(Blank), Str(<<>>), Null}

\* user 1 creates tasks, rewrites their title and description, completes and
\* deletes them, and sends the first task every text an update refuses
FieldRequests ==
    {Request("POST", Bearer(FreshToken(1)), NoParam, b) :
        b \in {TitleOnly,
               Body(Str(B), Str(Blank), Undef, Undef),
               Body(Str(Blank), Undef, Undef, Undef)}}
    \cup {Request("PUT", Bearer(FreshToken(1)), id, b) :
            id \in GoodIds,
            b \in {Body(Str(B), Undef, Undef, Undef),
                   Body(Undef, Str(B), Undef, Undef),
                   Complete}}
    \cup {Request("PUT", Bearer(FreshToken(1)), Dec(1), Body(t, Undef, Undef, Undef)) :
            t \in RefusedTexts}
    \cup {Request("PUT", Bearer(FreshToken(1)), Dec(1), Body(Undef, d, Undef, Undef)) :
            d \in RefusedTexts}
    \cup {Request("DELETE", Bearer(FreshToken(1)), id, NoBody) : id \in GoodIds}

NextFields ==
    \/ \E req \in Of(FieldRequests, "POST") : CreateTask(req)
    \/ \E req \in Of(FieldRequests, "PUT") : UpdateTask(req)
    \/ \E req \in Of(FieldRequests, "DELETE") : DeleteTask(req)

\* the text fields of a task over its life
SpecFields == Init /\ [][NextFields]_vars

\* user 1 creates a task; updates under a good, a missing, a forged and an
\* expired token, with a good, an absent and two malformed ids, and a good and
\* three invalid bodies
OrderRequests ==
    {Request("POST", Bearer(FreshToken(1)), NoParam, TitleOnly)}
    \cup {Request("PUT", h, id, b) :
            h \in {Bearer(FreshToken(1)), NoHeader, Bearer(ForgedToken(1)),
                   Bearer(ExpiredToken(1))},
            id \in {Dec(1), Dec(MaxTasks + 1), Dec(0), Lit("abc")},
            b \in {Complete, NoBody, Body(Str(Blank), Undef, Undef, Undef),
                   WithUserId(Complete, 1)}}

NextOrder ==
    \/ \E req \in Of(OrderRequests, "POST") : CreateTask(req)
    \/ \E req \in Of(OrderRequests, "PUT") : UpdateTask(req)

\* updates failing one, two or three of the checks
SpecOrder == Init /\ [][NextOrder]_vars

\* the credentials typed on the login page: user 1's, and a wrong password
SessionLogins == {Credentials(Str(EmailA), Str(PasswordA)),
                  Credentials(Str(EmailA), Str(PasswordB))}

NextSession ==
    \/ \E body \in SessionLogins : client.location = "/login" /\ LoginSubmit(body)
    \/ Idle /\ Logout
    \/ Visit
    \/ InFlight # {} /\ Advance(ExpiresIn * MsPerSecond)
    \/ \E title \in {A, Blank} : handleAdd(title)
    \/ \E i \in 1..MaxTasks : handleToggle(i)
    \/ \E i \in 1..MaxTasks : handleDelete(i)
    \/ handleClearCompleted
    \/ handleMarkAllComplete
    \/ \E req \in Of(InFlight, "GET") : ListTasks(req)
    \/ \E req \in Of(InFlight, "POST") : CreateTask(req)
    \/ \E req \in Of(InFlight, "PUT") : UpdateTask(req)
    \/ \E req \in Of(InFlight, "DELETE") : DeleteTask(req)
    \/ \E req \in InFlight : StorageFailure(req, ConnectionError)
    \/ Receive

\* one browser session: the login page, the tasks page and its calls, as time
\* passes and the storage fails now and then
SpecSession == Init /\ [][NextSession]_vars

(***************************************************************************)
(* Ownership.                                                              *)
(***************************************************************************)
Answered(method) == last.req.method = method /\ last.response.status # 0

Ran(f) == \E i \in 1..Len(last.ran) : last.ran[i] = f

\* the rows a step changed or removed
Touched(before, after) ==
    {id \in DOMAIN before : id \notin DOMAIN after \/ after[id] # before[id]}

C1_ListedAreOwn ==
    (Answered("GET") /\ last.response.status = 200)
        => \A i \in 1..Len(last.response.rows) :
              creator[last.response.rows[i].id] = TokenUser(last.req)

C1_WritesAreOwn ==
    \A id \in Touched(tasks, tasks') : creator[id] = TokenUser(last'.req)

\* C1: ownership isolation. A task created under A's token is in no GET /tasks
\* response to another user's token, and no PUT or DELETE made with another
\* user's token changes or removes it, in any order of the users' requests.
C1_OwnershipIsolation == [][C1_ListedAreOwn' /\ C1_WritesAreOwn]_vars

\* C1 witness: user B's update or delete named a task of user A, which is still there
C1_Witness ==
    /\ last.req.method \in {"PUT", "DELETE"}
    /\ last.target = "foreign"
    /\ \E id \in DOMAIN tasks : creator[id] # TokenUser(last.req) /\ id = last.req.id.n

\* C4: every task's owner is the user id of the verified token of the request
\* that created it; a handler acts under the identity of the request's token
\* alone, whatever the body (a user_id in it included) and the path parameter.
C4_OwnerFromToken ==
    /\ \A id \in DOMAIN tasks : tasks[id].user_id = creator[id]
    /\ Ran("handler") => last.userId = TokenUser(last.req)

\* C4 witness: a create whose body names another user as owner was answered,
\* and the caller has a task
C4_Witness ==
    /\ Answered("POST")
    /\ last.req.body.user_id.t = "number"
    /\ last.req.body.user_id.n # TokenUser(last.req)
    /\ \E id \in DOMAIN tasks : tasks[id].user_id = TokenUser(last.req)

\* C5: PUT and DELETE /tasks/{id} with a well-formed id (and, for PUT, a valid
\* body) answer 404 with the same body when the id names no task and when it
\* names a task of another user.
C5_NotFoundUniform ==
    (last.req.method \in {"PUT", "DELETE"} /\ Ran("query") /\ last.target # "own")
        => last.response = ErrorResponse(404, "Task not found.")

(***************************************************************************)
(* The access guard.                                                       *)
(***************************************************************************)
\* what a request's credentials are, read off the header and the time alone
HeaderMissing(h) == ~h.defined \/ h.parts = <<Word("")>>
HeaderShaped(h) == h.defined /\ Len(h.parts) = 2 /\ h.parts[1].s = "Bearer"
SignedByServer(h) == h.parts[2].tok.sig = "good"
PastExpiry(h, at) == at >= h.parts[2].tok.exp * MsPerSecond
GoodCredentials(h, at) ==
    /\ ~HeaderMissing(h)
    /\ HeaderShaped(h)
    /\ SignedByServer(h)
    /\ ~PastExpiry(h, at)

GuardRejected ==
    /\ last.ran = <<"authMiddleware">>
    /\ last.response.status = 401
    /\ last.userId = NoUser

GuardPassed ==
    /\ Len(last.ran) >= 2
    /\ last.ran[1] = "authMiddleware"
    /\ last.ran[2] = "handler"
    /\ last.userId # NoUser

\* C2: a request whose Authorization header is missing, is not of the shape
\* 'Bearer <token>', or carries a token with a wrong signature or a past
\* expiry is answered 401, gets no identity and is not passed on; every
\* request gets exactly one of the two outcomes of the guard.
C2_GuardFailsClosed ==
    last.response.status # 0 =>
        /\ ~GoodCredentials(last.req.header, last.at) => GuardRejected
        /\ GuardRejected # GuardPassed

\* C2 witness: a request with an expired, rightly signed token was rejected
C2_Witness ==
    /\ GuardRejected
    /\ HeaderShaped(last.req.header)
    /\ SignedByServer(last.req.header)
    /\ PastExpiry(last.req.header, last.at)

C3_GuardedAccess ==
    (Ran("handler") \/ Ran("query")) =>
        /\ GuardPassed
        /\ GoodCredentials(last.req.header, last.at)

\* C3: on every /tasks route the guard runs before the handler; the tasks
\* table is read or written only for a request the guard has accepted.
C3_GuardBeforeHandler ==
    [][/\ C3_GuardedAccess'
       /\ tasks' # tasks => last'.ran = <<"authMiddleware", "handler", "query">>]_vars

\* C3 witness: each method reached the table behind the guard; here the DELETE
C3_Witness ==
    /\ Answered("DELETE")
    /\ last.ran = <<"authMiddleware", "handler", "query">>
    /\ last.response.status = 200

\* the guard's answer to a header
Rejection(h, at) ==
    LET guard == authMiddleware(h, at)
    IN  ErrorResponse(guard.status, guard.error)

\* C6: every rejection by the guard is the same response, status and body,
\* whether the header was missing, had the wrong shape, or the token failed
\* verification.
C6_UniformRejection ==
    GuardRejected => last.response = Rejection(NoHeader, last.at)

(***************************************************************************)
(* Token lifetime.                                                         *)
(***************************************************************************)
TaskRequest == last.req.method \in {"GET", "POST", "PUT", "DELETE"}

\* the issuances of the token the last task request carried
Issuances ==
    IF TaskRequest /\ HeaderShaped(last.req.header)
    THEN {i \in issued : i.token = last.req.header.parts[2].tok}
    ELSE {}

Lifetime == ExpiresIn * MsPerSecond

\* C7 as stated: a token issued by a login at time t is accepted on every
\* request made before t + 2 hours and rejected with 401 on every request made
\* after t + 2 hours, times taken as the clock gives them (milliseconds).
C7_AcceptedForTwoHours ==
    \A i \in Issuances :
        /\ last.at < i.at + Lifetime => GuardPassed
        /\ last.at > i.at + Lifetime => GuardRejected

Second(ms) == ms \div MsPerSecond

\* C7, amended: a token issued by a login at time t is accepted on every
\* request made before the whole second of t plus 2 hours, and rejected with
\* 401 on every request made from then on (so on every request after t + 2
\* hours); the instant is fixed at issuance, whatever happens in between.
C7_AcceptedUntilExpiry ==
    \A i \in Issuances :
        /\ Second(last.at) < Second(i.at) + ExpiresIn => GuardPassed
        /\ Second(last.at) >= Second(i.at) + ExpiresIn => GuardRejected
        /\ last.at > i.at + Lifetime => GuardRejected

\* C7 witness: a token was rejected within 2 hours of the login that issued
\* it, its second of expiry reached
C7_Witness ==
    \E i \in Issuances :
        /\ last.at < i.at + Lifetime
        /\ Second(last.at) >= Second(i.at) + ExpiresIn
        /\ GuardRejected
        /\ \E j \in issued : j.token.userId = i.token.userId /\ j.at > i.at

C8_Irrevocable ==
    \A i \in Issuances : ~PastExpiry(last.req.header, last.at) => GuardPassed

\* C8: a token, once issued, is accepted until its expiry whatever happened in
\* between (further logins of its user, the client's logout, task operations);
\* verification writes no stored state (a rejection leaves every table and the
\* client's storage as they were) and reads none (the verdict is a function of
\* the header and the time).
C8_StatelessTokens ==
    [][/\ C8_Irrevocable'
       /\ (TaskRequest' /\ last' # last) =>
             /\ GuardPassed' <=> GoodCredentials(last'.req.header, last'.at)
             /\ GuardRejected' =>
                   UNCHANGED <<users, tasks, nextTaskId, localStorage, issued>>]_vars

\* C8 witness: a token was accepted after its holder logged out and logged in
\* again, with tasks created in between
C8_Witness ==
    /\ GuardPassed
    /\ localStorage = NoJwt
    /\ tasks # <<>>
    /\ \E i \in Issuances :
          \E j \in issued : j.token.userId = i.token.userId /\ j.at > i.at

(***************************************************************************)
(* Validation.                                                             *)
(***************************************************************************)
\* a route parameter that names a positive integer
WellFormedId(id) == (id.lit = "dec" /\ id.n > 0) \/ id \in HugeIds

ValidationFailed ==
    /\ last.response.status = 400
    /\ last.response.error = "Invalid input"
    /\ Len(last.response.details) > 0
    /\ ~Ran("query")

HasDetail(field) ==
    \E i \in 1..Len(last.response.details) : last.response.details[i].field = field

EmptyUpdate ==
    /\ Answered("PUT")
    /\ GuardPassed
    /\ WellFormedId(last.req.id)
    /\ BodyKeys(last.req.body) = {}

\* C9: an authenticated PUT with a well-formed id and a body of zero fields is
\* answered 400 with a detail whose field is "_form", whether the task exists,
\* is absent or is another user's, and no statement reaches the storage.
C9_EmptyUpdateRejected ==
    [][EmptyUpdate' => (ValidationFailed' /\ HasDetail("_form")' /\ tasks' = tasks)]_vars

\* C9 witness: an empty update of another user's task was rejected
C9_Witness ==
    /\ EmptyUpdate
    /\ last.response.status = 400
    /\ last.req.id.n \in DOMAIN tasks
    /\ tasks[last.req.id.n].user_id # last.userId

\* the fields a payload may have
AllowedKeys(method) ==
    IF method = "POST" THEN {"title", "description"}
    ELSE {"title", "description", "completed"}

UnknownField ==
    /\ Answered("POST") \/ Answered("PUT")
    /\ GuardPassed
    /\ BodyKeys(last.req.body) \ AllowedKeys(last.req.method) # {}

\* C10: an authenticated POST or PUT whose body has a field outside the schema
\* is answered 400 with validation details (of the unknown field, once the id
\* is well formed), never accepted with the field dropped, and nothing is
\* written to storage.
C10_ClosedSchemas ==
    [][UnknownField' =>
          /\ ValidationFailed'
          /\ (Answered("POST")' \/ WellFormedId(last'.req.id)) => HasDetail("unknown")'
          /\ tasks' = tasks]_vars

\* C10 witness: an update with a valid title and an unknown field, on the
\* caller's own task, was rejected
C10_Witness ==
    /\ UnknownField
    /\ Answered("PUT")
    /\ last.req.body.title = Str(A)
    /\ last.response.status = 400
    /\ last.req.id.n \in DOMAIN tasks
    /\ tasks[last.req.id.n].user_id = last.userId

(***************************************************************************)
(* Updates.                                                                *)
(***************************************************************************)
\* the columns of a row that no update may write
Identity(row) == [user_id |-> row.user_id, created_at |-> row.created_at]

\* the row after an update with the body: a field present is written (a
\* string trimmed), a field absent keeps its value
Written(row, body) ==
    [user_id |-> row.user_id,
     created_at |-> row.created_at,
     title |-> IF body.title.t = "undefined" THEN row.title ELSE Trim(body.title.s),
     description |-> IF body.description.t = "undefined" THEN row.description
                     ELSE Str(Trim(body.description.s)),
     completed |-> IF body.completed.t = "undefined" THEN row.completed
                   ELSE body.completed.b]

Updated == Answered("PUT") /\ last.response.status = 200

\* C11: a successful update writes exactly the fields present in the payload;
\* every field not present keeps its previous value, every other task is left
\* as it was, and no update changes a task's id, owner or creation timestamp.
C11_UpdateFrame ==
    [][Answered("PUT")' =>
          /\ DOMAIN tasks' = DOMAIN tasks
          /\ \A id \in DOMAIN tasks : Identity(tasks'[id]) = Identity(tasks[id])
          /\ Updated' =>
                /\ last'.req.id.n \in DOMAIN tasks
                /\ tasks'[last'.req.id.n] = Written(tasks[last'.req.id.n], last'.req.body)
                /\ \A id \in DOMAIN tasks \ {last'.req.id.n} : tasks'[id] = tasks[id]]_vars

\* C11 witness: an update of the title alone succeeded on a task that keeps a
\* description and a completion written before
C11_Witness ==
    /\ Updated
    /\ BodyKeys(last.req.body) = {"title"}
    /\ tasks[last.req.id.n].title = Trim(B)
    /\ tasks[last.req.id.n].description = Str(Trim(B))
    /\ tasks[last.req.id.n].completed

(***************************************************************************)
(* The life of a task.                                                     *)
(***************************************************************************)
\* the tasks of a user
Owned(table, u) == {id \in DOMAIN table : table[id].user_id = u}

Created == Answered("POST") /\ last.response.status = 201

Listed == Answered("GET") /\ last.response.status = 200

\* the task a create with only a title is to store and return
TitleTask(row, title) ==
    /\ row.title = Trim(title)
    /\ row.completed = FALSE
    /\ row.description = Null

\* C12: round trip. A successful create with only a title stores and returns
\* a task with the trimmed title, completed false and description null (not
\* omitted); the list of a user who has that one task is exactly that task: so
\* for a user with no tasks, create then list returns exactly one task, with
\* these values.
C12_CreateListRoundTrip ==
    [][/\ (Created' /\ BodyKeys(last'.req.body) = {"title"}) =>
             /\ DOMAIN tasks' = DOMAIN tasks \cup {nextTaskId}
             /\ tasks'[nextTaskId].user_id = TokenUser(last'.req)
             /\ TitleTask(tasks'[nextTaskId], last'.req.body.title.s)
             /\ Len(last'.response.rows) = 1
             /\ last'.response.rows[1].id = nextTaskId
             /\ TitleTask(last'.response.rows[1], last'.req.body.title.s)
       /\ (Listed' /\ Cardinality(Owned(tasks, TokenUser(last'.req))) = 1) =>
             /\ Len(last'.response.rows) = 1
             /\ \E id \in Owned(tasks, TokenUser(last'.req)) :
                   /\ last'.response.rows[1].id = id
                   /\ last'.response.rows[1].title = tasks[id].title
                   /\ last'.response.rows[1].completed = tasks[id].completed
                   /\ last'.response.rows[1].description = tasks[id].description]_vars

\* C12 witness: a user listed their one task, created with a padded title,
\* while the other user has a task too
C12_Witness ==
    /\ Listed
    /\ Len(last.response.rows) = 1
    /\ TitleTask(last.response.rows[1], B)
    /\ last.response.rows[1].title # B
    /\ Owned(tasks, TokenUser(last.req)) # DOMAIN tasks

\* the ids of tasks that were deleted: the sequence never gives an id twice
Deleted == (1..(nextTaskId - 1)) \ DOMAIN tasks

NotFound == last.response = ErrorResponse(404, "Task not found.")

\* C13: delete is idempotent in effect. Once a DELETE by the owner succeeded,
\* the task stays deleted and is in no later list, and every repeat of the
\* delete, and every update of that id, by the same user is answered 404
\* "Task not found." and leaves the storage as it was.
C13_DeleteIdempotent ==
    [][/\ Deleted \subseteq Deleted'
       /\ Listed' =>
             \A i \in 1..Len(last'.response.rows) : last'.response.rows[i].id \notin Deleted'
       /\ ((Answered("DELETE")' \/ Answered("PUT")')
            /\ last'.req.id.n \in Deleted
            /\ TokenUser(last'.req) = creator[last'.req.id.n]) =>
             /\ NotFound'
             /\ tasks' = tasks]_vars

\* C13 witness: the owner repeated the delete of a task already deleted, and
\* was answered 404, with another task of theirs still stored
C13_Witness ==
    /\ Answered("DELETE")
    /\ last.req.id.n \in Deleted
    /\ TokenUser(last.req) = creator[last.req.id.n]
    /\ last.response.status = 404
    /\ Owned(tasks, TokenUser(last.req)) # {}

(***************************************************************************)
(* Login.                                                                  *)
(***************************************************************************)
LoginAnswered == last.req.method = "POST /api/auth/login" /\ last.response.status # 0

\* the users registered under the address, compared in lower case
Registered(email) == {u \in DOMAIN users : users[u].email = ToLowerCase(email)}

\* a login with a well-formed address and a password that is not the password
\* of a user registered under the address
BadLogin ==
    /\ LoginAnswered
    /\ isValidEmail(last.req.body.email)
    /\ last.req.body.password.t = "string"
    /\ last.req.body.password.s # <<>>
    /\ \A u \in Registered(last.req.body.email.s) :
          users[u].password_hash.password # last.req.body.password.s

\* C14: a login with a well-formed unregistered address and a login with a
\* registered address and a wrong password get the same answer, 401 with the
\* body 'Invalid email or password.', and neither issues a token.
C14_LoginFailureUniform ==
    [][(BadLogin' /\ last' # last) =>
          /\ last'.response = ErrorResponse(401, "Invalid email or password.")
          /\ issued' = issued
          /\ localStorage' = localStorage]_vars

\* C14 witness: a login with an unregistered address was refused
C14_Witness ==
    /\ BadLogin
    /\ Registered(last.req.body.email.s) = {}
    /\ last.response.status = 401

\* a login with a registered address and a wrong password was refused
C14_WrongPassword ==
    /\ BadLogin
    /\ Registered(last.req.body.email.s) # {}
    /\ last.response.status = 401

(***************************************************************************)
(* The :id parameter.                                                      *)
(***************************************************************************)
ByIdAnswered == (Answered("PUT") \/ Answered("DELETE")) /\ GuardPassed

\* an id that is zero, negative, fractional or not a number
Malformed(id) ==
    \/ id.lit = "dec" /\ id.n <= 0
    \/ id.lit \in {"1.5", "abc"}

\* C15: on PUT and DELETE /tasks/{id}, an id that is not a positive integer
\* (zero, negative, fractional, non-numeric) is rejected with 400, and no
\* statement reaches the storage.
C15_MalformedIdRejected ==
    [][(ByIdAnswered' /\ Malformed(last'.req.id)) =>
          /\ last'.response.status = 400
          /\ ~Ran("query")'
          /\ tasks' = tasks]_vars

\* C15 witness: a delete by the id 0 was rejected while the caller has a task
C15_Witness ==
    /\ ByIdAnswered
    /\ Answered("DELETE")
    /\ last.req.id = Dec(0)
    /\ last.response.status = 400
    /\ Owned(tasks, last.userId) # {}

\* C16: for every id that passes the positive-integer check, whatever its
\* magnitude, an authenticated DELETE, and a PUT with a valid body, on an id
\* that names no task of the caller is answered 404, never 400 or 500.
C16_AbsentIdNotFound ==
    (ByIdAnswered /\ ~Malformed(last.req.id) /\ last.target \in {"absent", "foreign", "out of range"})
        => last.response.status = 404

\* an update whose description is a string that is empty once trimmed
EmptyDescription ==
    /\ Answered("PUT")
    /\ GuardPassed
    /\ last.req.body.description.t = "string"
    /\ Trim(last.req.body.description.s) = <<>>

GenericMessages ==
    {"Internal Server Error", "Failed to fetch tasks.", "Failed to create task.",
     "Failed to delete task."}

\* C18: every unexpected failure (a storage error in a route, or any error
\* that reaches the central error handler) is answered 500 with a fixed
\* generic message; the exception's message is never in the response body.
C18_GenericInternalError ==
    last.err # NoError =>
        /\ last.response.status = 500
        /\ last.response.error \in GenericMessages
        /\ last.response.error # last.err.message

(***************************************************************************)
(* Registration.                                                           *)
(***************************************************************************)
RegisterAnswered ==
    last.req.method = "POST /api/auth/register" /\ last.response.status # 0

\* the request was answered by the step that received it
AnsweredOnArrival == RegisterAnswered /\ ~Ran("insert")

\* the registered users whose username is the trimmed username of the body, or
\* whose email is its email in lower case
Taken(table, body) ==
    {u \in DOMAIN table :
        \/ body.username.t = "string" /\ table[u].username = Trim(body.username.s)
        \/ body.email.t = "string" /\ table[u].email = ToLowerCase(body.email.s)}

\* a body that passes the input validation
ValidRegistration(body) ==
    /\ body.username.t = "string"
    /\ Len(Trim(body.username.s)) >= MinUsername
    /\ isValidEmail(body.email)
    /\ body.password.t = "string"
    /\ Len(body.password.s) >= MinPassword

\* C19 as stated: a registration whose trimmed username or lowercased email is
\* that of a user already registered when it arrives is answered 409 and
\* creates no user.
C19_DuplicateConflict ==
    [][(AnsweredOnArrival' /\ last' # last /\ Taken(users, last'.req.body) # {}) =>
          /\ last'.response.status = 409
          /\ users' = users]_vars

\* C19, amended: a registration that passes the input validation and whose
\* trimmed username or lowercased email is that of a user already registered
\* when it arrives is answered 409 and creates no user; one that fails the
\* validation is answered 400, taken or not, and creates no user; and only a
\* registration is answered 409.  No taken registration goes on to the insert.
C19_ValidDuplicateConflict ==
    [][/\ (AnsweredOnArrival' /\ last' # last /\ Taken(users, last'.req.body) # {}) =>
             /\ users' = users
             /\ registering' = registering
             /\ IF ValidRegistration(last'.req.body)
                THEN last'.response =
                         ErrorResponse(409, "Username or email already in use.")
                ELSE last'.response.status = 400
       /\ \A r \in registering' \ registering : Taken(users, r.body) = {}
       /\ last'.response.status = 409 => RegisterAnswered']_vars

\* C19 witness: a registration with the email of a stored user in upper case
\* was answered 409
C19_Witness ==
    /\ AnsweredOnArrival
    /\ last.response.status = 409
    /\ \E u \in Taken(users, last.req.body) :
          /\ users[u].email # last.req.body.email.s
          /\ users[u].username # Trim(last.req.body.username.s)

(***************************************************************************)
(* Listing.                                                                *)
(***************************************************************************)
\* the ids of the rows of a response, in order
ListedIds == [i \in DOMAIN last.response.rows |-> last.response.rows[i].id]

\* C20: a list by user uid is answered 200 with all and only the tasks uid
\* owns, each once and as stored, no task created later after one created
\* earlier; for a user with no tasks the answer is 200 with no rows.
C20_ListOwnedNewestFirst ==
    Answered("GET") /\ last.userId # NoUser =>
        LET rows == last.response.rows
            mine == Owned(tasks, last.userId)
        IN  /\ last.response.status = 200
            /\ last.response.error = ""
            /\ Len(rows) = Cardinality(mine)
            /\ {ListedIds[i] : i \in DOMAIN rows} = mine
            /\ \A i \in DOMAIN rows : rows[i] = Returning(rows[i].id, tasks[rows[i].id])
            /\ \A i, j \in DOMAIN rows :
                  i < j => rows[i].created_at >= rows[j].created_at
            /\ mine = {} => rows = <<>>

\* C20 witness: a list returned two tasks of the caller created at different
\* times, the later one first
C20_Witness ==
    /\ Listed
    /\ Len(last.response.rows) = 2
    /\ last.response.rows[1].created_at > last.response.rows[2].created_at
    /\ last.response.rows[1].id > last.response.rows[2].id

\* a user with no tasks was answered 200 with no rows while the other has one
C20_EmptyList ==
    /\ Listed
    /\ last.response.rows = <<>>
    /\ tasks # <<>>

(***************************************************************************)
(* The text fields of a stored task.                                       *)
(***************************************************************************)
\* C21: every stored task has a title that is not empty and has no space at
\* either end.
C21_TitleNonEmptyTrimmed ==
    \A id \in DOMAIN tasks :
        /\ Len(tasks[id].title) >= 1
        /\ ~IsSpace(tasks[id].title[1])
        /\ ~IsSpace(tasks[id].title[Len(tasks[id].title)])

\* C21 witness: a task created from a title with spaces around it is stored,
\* and an update that gave it a blank title was answered 400
C21_Witness ==
    /\ Answered("PUT")
    /\ last.response.status = 400
    /\ last.req.body.title \in RefusedTexts
    /\ \E id \in DOMAIN tasks : tasks[id].title = Trim(B) /\ last.req.id = Dec(id)

\* a description that is null or the empty string
Cleared(description) == description \in {Null, Str(<<>>)}

C28_ClearedByCreate ==
    /\ Answered("PUT")
    /\ last.response.status = 200
    /\ \E id, other \in DOMAIN tasks :
          /\ last.req.id = Dec(id)
          /\ tasks[id].description = Str(Trim(B))
          /\ tasks[other].description = Str(<<>>)

(***************************************************************************)
(* The order of the checks on PUT /tasks/{id}.                             *)
(***************************************************************************)
\* a text field of an update: absent, or a string with a character that is no
\* space
TextOrAbsent(v) ==
    \/ v.t = "undefined"
    \/ v.t = "string" /\ \E k \in 1..Len(v.s) : ~IsSpace(v.s[k])

\* a body the update accepts
ValidUpdate(body) ==
    /\ BodyKeys(body) # {}
    /\ BodyKeys(body) \subseteq AllowedKeys("PUT")
    /\ TextOrAbsent(body.title)
    /\ TextOrAbsent(body.description)
    /\ body.completed.t \in {"undefined", "boolean"}

C27_AllFailing ==
    /\ Answered("PUT")
    /\ last.response.status = 401
    /\ Malformed(last.req.id)
    /\ ~ValidUpdate(last.req.body)

\* no two users share a username or an email
UniqueUsers(table) ==
    \A u, v \in DOMAIN table :
        u # v => table[u].username # table[v].username /\ table[u].email # table[v].email

\* a registration was answered after its INSERT was tried
AnsweredAfterInsert == RegisterAnswered /\ Ran("insert")

\* C24: no two users share a trimmed username or a lowercased email, and a
\* registration that reaches its INSERT after another one has taken its
\* username or email is answered 409, the other one 201.
C24_UniqueUnderConcurrency ==
    [][/\ UniqueUsers(users')
       /\ (AnsweredAfterInsert' /\ last' # last) =>
             IF Taken(users, last'.req.body) = {}
             THEN last'.response.status = 201
             ELSE last'.response.status = 409]_vars

\* two registrations of one username and email passed the check together; the
\* second INSERT was refused and the request answered 500
C24_SecondAnswered500 ==
    /\ AnsweredAfterInsert
    /\ last.response.status = 500
    /\ Cardinality(Taken(users, last.req.body)) = 1
    /\ UniqueUsers(users)

(***************************************************************************)
(* Refusals write nothing.                                                 *)
(***************************************************************************)
\* the statuses of validation, authentication, not-found and conflict
Refusals == {400, 401, 404, 409}

\* C25: a step that answers a request with 400, 401, 404 or 409 leaves the
\* stored users and tasks as they were.
C25_RefusalsWriteNothing ==
    [][(last' # last /\ last'.response.status \in Refusals) =>
          users' = users /\ tasks' = tasks]_vars

\* C25 witness: an update of user 1's stored task by user 2 was answered 404
C25_Witness ==
    /\ Answered("PUT")
    /\ last.response.status = 404
    /\ last.userId = 2
    /\ 1 \in DOMAIN tasks
    /\ ~tasks[1].completed

(***************************************************************************)
(* Register, then log in.                                                  *)
(***************************************************************************)
\* the spellings of an email that differ in letter case only, among those sent
CaseVariants(email) ==
    {e \in {email, ToLowerCase(email)} \cup {b.email.s : b \in RegisterBodies} :
        ToLowerCase(e) = ToLowerCase(email)}

\* the passwords tried
Passwords == {PasswordA, PasswordB, LongPassword, OtherLongPassword}

\* the answer to a login sent right after the step
LoginAfter(email, password) == login(users, Credentials(Str(email), Str(password)), clock)

\* C29: when a registration with email E and password P is answered 201, the
\* stored and the returned email are E in lower case; from then a login with P
\* and any letter-case variant of E is answered 200 with a token the guard
\* resolves to the new user's id, and a login with any other password 401.
C29_RegisterLoginRoundTrip ==
    [][(AnsweredAfterInsert' /\ last' # last /\ last'.response.status = 201) =>
          LET body == last'.req.body
              id == last'.response.user.id
          IN  /\ id \in DOMAIN users' \ DOMAIN users
              /\ users'[id].email = ToLowerCase(body.email.s)
              /\ last'.response.user.email = ToLowerCase(body.email.s)
              /\ \A e \in CaseVariants(body.email.s), p \in Passwords :
                    IF p = body.password.s
                    THEN /\ LoginAfter(e, p)'.status = 200
                         /\ authMiddleware(Bearer(LoginAfter(e, p)'.token), clock').next
                         /\ authMiddleware(Bearer(LoginAfter(e, p)'.token), clock').userId = id
                    ELSE LoginAfter(e, p)'.status = 401]_vars

\* the user registered with LongPassword has logged in with OtherLongPassword
C29_OtherPasswordAccepted ==
    /\ LoginAnswered
    /\ last.response.status = 200
    /\ last.req.body.password = Str(OtherLongPassword)
    /\ last.response.user.email = ToLowerCase(EmailE)
    /\ localStorage = last.response.token

\* the same user has logged in with the password and the email as registered
C29_RoundTrip ==
    /\ LoginAnswered
    /\ last.response.status = 200
    /\ last.req.body = Credentials(Str(EmailE), Str(LongPassword))
    /\ authMiddleware(Bearer(last.response.token), clock).userId = last.response.user.id

(***************************************************************************)
(* Two requests on one task, their statements one after the other.         *)
(***************************************************************************)
\* the value an accepted update stores under a key of its body
Stored(body, key) ==
    CASE key = "title" -> Trim(body.title.s)
      [] key = "description" -> Str(Trim(body.description.s))
      [] OTHER -> body.completed.b

\* the value of a row under a key
Column(row, key) ==
    CASE key = "title" -> row.title
      [] key = "description" -> row.description
      [] OTHER -> row.completed

Removed == Answered("DELETE") /\ last.response.status = 200

\* the request answered in this step and the one answered before it name the
\* same task under the same identity
SameTask ==
    /\ last' # last
    /\ last.response.status # 0
    /\ last'.req.id = last.req.id
    /\ last'.userId = last.userId

\* C26: when two updates of a task by its owner write disjoint fields and their
\* statements run one after the other, in either order, the task then carries
\* the values of both. When an update and a delete of a task run one after the
\* other, the update is answered 200 before the delete or 404 after it, and
\* after the delete the task is not stored.
C26_ConcurrentWrites ==
    [][SameTask =>
          /\ (Updated /\ Updated' /\
               BodyKeys(last.req.body) \cap BodyKeys(last'.req.body) = {}) =>
                 /\ \A key \in BodyKeys(last.req.body) :
                       Column(tasks'[last.req.id.n], key) = Stored(last.req.body, key)
                 /\ \A key \in BodyKeys(last'.req.body) :
                       Column(tasks'[last.req.id.n], key) = Stored(last'.req.body, key)
          /\ (Updated /\ Answered("DELETE")') =>
                 /\ last'.response.status = 200
                 /\ last.req.id.n \notin DOMAIN tasks'
          /\ (Removed /\ Answered("PUT")' /\ ValidUpdate(last'.req.body)) =>
                 /\ last'.response.status = 404
                 /\ last.req.id.n \notin DOMAIN tasks'
                 /\ tasks' = tasks]_vars

\* C26 witness: an update of the description and then one of the completion,
\* both answered 200, left the task with both values
C26_Witness ==
    /\ Updated
    /\ BodyKeys(last.req.body) = {"completed"}
    /\ tasks[last.req.id.n].completed
    /\ tasks[last.req.id.n].description = Stored(Body(Undef, Str(B), Undef, Undef),
                                                  "description")

\* an update of a task just deleted was answered 404
C26_UpdateAfterDelete ==
    /\ Answered("PUT")
    /\ last.response.status = 404
    /\ ValidUpdate(last.req.body)
    /\ last.req.id.n < nextTaskId

(***************************************************************************)
(* C22.  The bulk actions of the tasks page.                               *)
(***************************************************************************)
\* what a call of a bulk action that was answered 200 wrote is in the storage
Kept(req) ==
    IF req.method = "PUT"
    THEN req.id.n \in DOMAIN tasks /\ tasks[req.id.n].completed
    ELSE req.id.n \notin DOMAIN tasks

\* a bulk action ended in its catch block after some of its calls succeeded
PartialSuccess ==
    /\ client.location = "/tasks"
    /\ client.op = ""
    /\ client.error
    /\ client.done # {}

\* C22: a bulk action (mark all complete, clear completed) is a batch of
\* independent single-row calls without aggregate atomicity: while the batch
\* runs and after one of its calls has failed, every row whose call succeeded
\* stays updated or deleted on the server (nothing is rolled back).
C22_NoRollback == \A d \in client.done : Kept(d.req)

\* C22 witness: mark all complete ended with an error after one call was
\* answered 200 and another 500; the first row is completed, the other is not
C22_Witness ==
    /\ PartialSuccess
    /\ last.taken
    /\ last.response.status = 500
    /\ last.req.method = "PUT"
    /\ last.req.id.n \in DOMAIN tasks
    /\ ~tasks[last.req.id.n].completed
    /\ \E d \in client.done : d.req.id # last.req.id /\ tasks[d.req.id.n].completed

(***************************************************************************)
(* C23.  The client's session.                                             *)
(***************************************************************************)
\* the browser takes the response of a call of the tasks page in this step
Takes == ~last.taken /\ last' = [last EXCEPT !.taken = TRUE]

\* C23: when a call of the tasks page (load, add, toggle, delete, mark all
\* complete, clear completed) comes back 401, the client removes the stored
\* token and goes to /login; without a token the client is at /login, whatever
\* is visited, and a token is stored again only by a login answered 200.
C23_UnauthorizedLogsOut ==
    [][/\ (Takes /\ last.response.status = 401) =>
            /\ localStorage' = NoJwt
            /\ client'.location = "/login"
       /\ localStorage' = NoJwt => client'.location = "/login"
       /\ (localStorage = NoJwt /\ localStorage' # NoJwt) =>
            /\ LoginAnswered'
            /\ last'.response.status = 200
            /\ localStorage' = last'.response.token]_vars

\* the same for the calls a handler is awaiting when they come back
C23_AwaitedUnauthorizedLogsOut ==
    [][/\ (Takes /\ last.response.status = 401 /\ last.req \in client.calls) =>
            /\ localStorage' = NoJwt
            /\ client'.location = "/login"
       /\ localStorage' = NoJwt => client'.location = "/login"
       /\ (localStorage = NoJwt /\ localStorage' # NoJwt) =>
            /\ LoginAnswered'
            /\ last'.response.status = 200
            /\ localStorage' = last'.response.token]_vars

\* a call of a bulk action that was already rejected came back 401, and the
\* client kept the token the call was sent with and stayed on the tasks page
C23_UnauthorizedIgnored ==
    /\ last.taken
    /\ last.response.status = 401
    /\ last.req.method \in {"PUT", "DELETE"}
    /\ last.req.header = Bearer(localStorage)
    /\ client.location = "/tasks"

\* a load that came back 401 removed the token and left the client at /login
C23_LoggedOut ==
    /\ last.taken
    /\ last.response.status = 401
    /\ last.req.method = "GET"
    /\ localStorage = NoJwt
    /\ client.location = "/login"

(***************************************************************************)
(* C30.  The list the tasks page shows and the list the server holds.      *)
(***************************************************************************)
\* the tasks page has loaded, its last operation completed without an error,
\* and no call of it is in flight
AtRest ==
    /\ client.location = "/tasks"
    /\ client.loaded
    /\ client.op = ""
    /\ ~client.error
    /\ client.stale = {}

\* C30: in one client session with no other writer, once the tasks page has
\* loaded and whenever an operation of it (add, toggle, delete, mark all
\* complete, clear completed) has completed, the list the client holds is, in
\* content and order, a list GET /tasks returns for the user.
C30_ClientServerAgreement ==
    AtRest => client.tasks \in SelectTasks(tasks, localStorage.userId)

\* after mark all complete failed on one task and a later toggle of that task
\* completed, the page shows another task as open that the server holds as
\* completed
C30_StaleRow ==
    /\ AtRest
    /\ \E i \in DOMAIN client.tasks :
          /\ ~client.tasks[i].completed
          /\ client.tasks[i].id \in DOMAIN tasks
          /\ tasks[client.tasks[i].id].completed

====
